---- MODULE Spec2Model ----
(***************************************************************************)
(* Verification model of asynction: the security evaluator                 *)
(* (asynction/security.py), the validation pipeline                        *)
(* (asynction/validation.py), the handler binder and emit                  *)
(* (asynction/server.py) and the construction of the document model        *)
(* (asynction/types.py).                                                   *)
(***************************************************************************)
EXTENDS Integers, Sequences, FiniteSets, TLC

VARIABLES
    validation,         \* AsynctionSocketIO.validation
    server_security,    \* AsynctionSocketIO.server_security
    channel,            \* the channel being registered: x_handlers.connect, bindings, x_security
    custom_validator,   \* whether the schemes declare x_scope_validate_func
    handlers,           \* the composition registered for ("connect", namespace); <<>> when none
    request,            \* current_flask_request of the connection attempt
    pc,                 \* position of the connection attempt in the composition
    stack,              \* stages of the composition still to run
    idx,                \* position of security_handler's loop over security_checks
    kwargs,             \* keyword arguments forwarded towards the user's handler
    log,                \* calls made during the current connection attempt, in order
    outcome,            \* how the registered callable, emit or constructor ended
    message,            \* the Message of the channel's publish / subscribe operation
    channels,           \* spec.channels, by namespace
    event_handler,      \* the callable registered for (message.name, namespace); <<>> when none
    emitted,            \* what emit handed to the transport (SocketIO.emit)
    call,               \* the inbound event, emit or ack under way, with its arguments
    trace,              \* validators, handlers and callbacks called by it, in order
    retval,             \* what the operation under way returned
    document,           \* the document a Channel / AsyncApiSpec is constructed from
    app,                \* whether the server was made with an application (app is not None)
    subscription_tasks, \* MockAsynctionSocketIO._subscription_tasks, in declaration order
    max_worker_number,  \* the argument of MockAsynctionSocketIO.run
    background,         \* what run started, in order: the targets of start_background_task, then SocketIO.run
    queue,              \* the queue shared by the task runners and the task scheduler
    runners,            \* each task_runner thread: where it is and the task it holds
    scheduler,          \* the task_scheduler thread: where it is in its loops
    sched_log,          \* what the scheduler did, in order: passes of its loop, puts, sleeps
    executions          \* for each put, in order: the runners that called the task it enqueued

vars == <<validation, server_security, channel, custom_validator, handlers,
          request, pc, stack, idx, kwargs, log, outcome,
          message, channels, event_handler, emitted, call, trace, retval, document,
          app, subscription_tasks, max_worker_number, background, queue, runners,
          scheduler, sched_log, executions>>

\* the variables of the security evaluator and the connect composition
secVars == <<server_security, channel, custom_validator, handlers, request,
             stack, idx, kwargs, log>>

\* the variables of the validation pipeline and the document constructor
pipeVars == <<message, channels, event_handler, emitted, call, trace, retval, document>>
runVars == <<app, subscription_tasks, max_worker_number, background, queue, runners,
             scheduler, sched_log, executions>>

-----------------------------------------------------------------------------
(* Bounds *)

MaxReqs == 2            \* longest security requirement list
MaxScopes == 2          \* longest scope list (required scopes, claims' scopes)

Scopes == {"read", "write"}

SeqsUpTo(S, n) == UNION {[1..k -> S] : k \in 0..n}

ScopeSeqs == SeqsUpTo(Scopes, MaxScopes)

ToSet(s) == {s[i] : i \in 1..Len(s)}

-----------------------------------------------------------------------------
(* Python values *)

\* A Mapping returned by an info function, or None.
NoneInfo == [is_none |-> TRUE, keys |-> {}, sub |-> "", scopes |-> <<>>]
EmptyInfo == [is_none |-> FALSE, keys |-> {}, sub |-> "", scopes |-> <<>>]
Claims(sub, scopes) ==
    [is_none |-> FALSE, keys |-> {"sub", "scopes"}, sub |-> sub, scopes |-> scopes]

\* Python truthiness of an Optional[Mapping]
Truthy(m) == ~m.is_none /\ m.keys # {}

\* str.lower() on the auth types that occur
Lower(s) ==
    CASE s = "Basic" -> "basic"
      [] s = "Bearer" -> "bearer"
      [] s = "Digest" -> "digest"
      [] s = "Token" -> "token"
      [] s = "Foo" -> "foo"
      [] OTHER -> s

\* base64.b64decode(user_pass).decode("latin1") on the credentials that occur
b64decode(s) ==
    CASE s = "dTpw" -> [ok |-> TRUE, chars |-> <<"u", ":", "p">>]
      [] s = "dXA=" -> [ok |-> TRUE, chars |-> <<"u", "p">>]
      [] s = "dTo=" -> [ok |-> TRUE, chars |-> <<"u", ":">>]
      [] s = "OnA=" -> [ok |-> TRUE, chars |-> <<":", "p">>]
      [] OTHER -> [ok |-> FALSE, chars |-> <<>>]   \* binascii.Error (incorrect padding)

\* str.split(":", 1)
ColonAt(chars) == {i \in 1..Len(chars) : chars[i] = ":"}
FirstColon(chars) == CHOOSE i \in ColonAt(chars) : \A j \in ColonAt(chars) : i <= j
split_colon(chars) ==
    IF ColonAt(chars) = {} THEN <<chars>>
    ELSE <<SubSeq(chars, 1, FirstColon(chars) - 1),
           SubSeq(chars, FirstColon(chars) + 1, Len(chars))>>

\* Exception classes and their bases
Bases(exc) ==
    CASE exc = "SecurityException" ->
            {"SecurityException", "AsynctionException", "RuntimeError", "Exception"}
      [] exc = "BindingsValidationException" ->
            {"BindingsValidationException", "ValidationException",
             "AsynctionException", "RuntimeError", "Exception"}
      [] exc = "ValidationException" ->
            {"ValidationException", "AsynctionException", "RuntimeError", "Exception"}
      [] exc = "PayloadValidationException" ->
            {"PayloadValidationException", "ValidationException",
             "AsynctionException", "RuntimeError", "Exception"}
      [] exc = "MessageAckValidationException" ->
            {"MessageAckValidationException", "ValidationException",
             "AsynctionException", "RuntimeError", "Exception"}
      [] exc = "IndexError" -> {"IndexError", "LookupError", "Exception"}
      [] exc = "ValueError" -> {"ValueError", "Exception"}
      [] exc = "TypeError" -> {"TypeError", "Exception"}
      [] OTHER -> {exc, "Exception"}

-----------------------------------------------------------------------------
(* The request of a connection attempt *)

NoHeader == [present |-> FALSE, words |-> <<>>]
Header(words) == [present |-> TRUE, words |-> words]

\* Authorization header values, as the whitespace-separated words of the value
AuthorizationValues ==
    { NoHeader,
      Header(<<"Basic">>),              \* no credential part
      Header(<<"Basic", "dTpw">>),      \* u:p
      Header(<<"basic", "dXA=">>),      \* up, no colon
      Header(<<"basic", "dTp">>),       \* not base64
      Header(<<"basic", "dTo=">>),      \* u: , empty password
      Header(<<"Bearer", "tok">>),
      Header(<<"Digest", "tok">>),
      Header(<<"Token", "tok">>) }

NoKey == [present |-> FALSE, value |-> ""]
ApiKeyValues == {NoKey, [present |-> TRUE, value |-> "k1"]}

Methods == {"GET", "POST"}

\* headers: the names of the other headers; args: the values of the query
\* parameter "bar"
Requests ==
    [authorization : AuthorizationValues, api_key : ApiKeyValues, method : Methods,
     headers : {{}}, args : {<<>>}]

NoRequest ==
    [authorization |-> NoHeader, api_key |-> NoKey, method |-> "GET",
     headers |-> {}, args |-> <<>>]

-----------------------------------------------------------------------------
(* components.securitySchemes of the document *)

SchemeNames == {"basic", "bearer", "apiKey", "oauth2", "x509"}

\* ApiKeyLocation(value): the member of the Enum that forge makes of the
\* document's "in"; a member of a plain Enum is equal to no string
ApiKeyLocation(value) ==
    CASE value = "user" -> "ApiKeyLocation.USER"
      [] value = "password" -> "ApiKeyLocation.PASSWORD"
      [] value = "query" -> "ApiKeyLocation.QUERY"
      [] value = "header" -> "ApiKeyLocation.HEADER"
      [] value = "cookie" -> "ApiKeyLocation.COOKIE"
      [] OTHER -> "ValueError"

\* a SecurityScheme; x_*_func are handler references, "" when None
SecurityScheme(type, scheme, in_, name, basic, bearer, token, api_key) ==
    [type |-> type, scheme |-> scheme, in_ |-> in_, name |-> name,
     x_basic_info_func |-> basic, x_bearer_info_func |-> bearer,
     x_token_info_func |-> token, x_api_key_info_func |-> api_key]

\* "bearer" names its info function under x-apiKeyInfoFunc, "bearerInfo"
\* under x-bearerInfoFunc; "stale" refers to a function that does not exist
security_schemes(name) ==
    CASE name = "basic" ->
            SecurityScheme("http", "basic", "", "", "handlers.basic_info", "", "", "")
      [] name = "bearer" ->
            SecurityScheme("http", "bearer", "", "", "", "", "", "handlers.bearer_info")
      [] name = "bearerInfo" ->
            SecurityScheme("http", "bearer", "", "", "", "handlers.bearer_info", "", "")
      [] name = "stale" ->
            SecurityScheme("http", "basic", "", "", "handlers.missing", "", "", "")
      [] name = "apiKey" ->
            SecurityScheme("httpApiKey", "", ApiKeyLocation("header"), "X-API-Key",
                           "", "", "", "handlers.api_key_info")
      [] name = "oauth2" ->
            SecurityScheme("oauth2", "", "", "", "", "", "handlers.token_info", "")
      [] name = "oidc" -> SecurityScheme("openIdConnect", "", "", "", "", "", "", "")
      [] OTHER -> SecurityScheme("X509", "", "", "", "", "", "", "")

\* the handler references that load_handler can import
Importable ==
    {"handlers.basic_info", "handlers.bearer_info", "handlers.token_info",
     "handlers.api_key_info", "handlers.validate_scopes", "handlers.connect"}

HTTPAuthenticationScheme == {"basic", "digest", "bearer"}

\* What the info function of a scheme may return: None, {} or claims
InfoResults(name) == {NoneInfo, EmptyInfo} \cup {Claims(name, s) : s \in ScopeSeqs}

-----------------------------------------------------------------------------
(* asynction/security.py *)

AuthNone == [tag |-> "none", lhs |-> "", rhs |-> ""]
AuthRaise == [tag |-> "raise", lhs |-> "", rhs |-> ""]

\* variant: a header without a credential part is treated as absent
extract_auth_header_lenient(req) ==
    LET authorization == req.authorization IN
    IF ~authorization.present \/ Len(authorization.words) < 2 THEN AuthNone
    ELSE [tag |-> "ok", lhs |-> authorization.words[1], rhs |-> authorization.words[2]]

extract_auth_header(req) ==
    LET authorization == req.authorization IN
    IF ~authorization.present \/ authorization.words = <<>> THEN AuthNone
    ELSE IF Len(authorization.words) < 2 THEN AuthRaise    \* ValueError -> SecurityException
    ELSE [tag |-> "ok", lhs |-> authorization.words[1], rhs |-> authorization.words[2]]

\* Result of a validate_* function or of a check:
\*   tag "value": a token_info was returned     tag "none": None / (None, None)
\*   tag "err": (None, err)                     tag "raise": exception exc
\*   called: the info function was invoked      scoped: the scope validator was invoked
\*   loaded: load_handler was called while the check ran
Res(tag, info, exc, called, scoped) ==
    [tag |-> tag, info |-> info, exc |-> exc, called |-> called, scoped |-> scoped,
     loaded |-> FALSE]
ResNone(called) == Res("none", NoneInfo, "", called, FALSE)
ResRaise(exc, called, scoped) == Res("raise", NoneInfo, exc, called, scoped)

\* variant: a None result of the basic-info function is returned as "no token_info"
validate_basic_none_skips(req, r) ==
    LET auth == extract_auth_header(req) IN
    IF auth.tag = "raise" THEN ResRaise("SecurityException", FALSE, FALSE)
    ELSE IF auth.tag = "none" THEN ResNone(FALSE)
    ELSE IF auth.lhs = "" \/ auth.rhs = "" THEN ResRaise("SecurityException", FALSE, FALSE)
    ELSE IF Lower(auth.lhs) \notin HTTPAuthenticationScheme
         THEN ResRaise("ValueError", FALSE, FALSE)
    ELSE IF Lower(auth.lhs) # "basic" THEN ResNone(FALSE)
    ELSE LET dec == b64decode(auth.rhs)
             parts == split_colon(dec.chars)
         IN  IF ~dec.ok \/ Len(parts) # 2 THEN ResRaise("SecurityException", FALSE, FALSE)
             ELSE IF parts[1] = <<>> \/ parts[2] = <<>>
                  THEN ResRaise("SecurityException", FALSE, FALSE)
             ELSE IF r.is_none THEN ResNone(TRUE)
             ELSE Res("value", r, "", TRUE, FALSE)

validate_basic(req, r) ==
    LET auth == extract_auth_header(req) IN
    IF auth.tag = "raise" THEN ResRaise("SecurityException", FALSE, FALSE)
    ELSE IF auth.tag = "none" THEN ResNone(FALSE)
    ELSE IF auth.lhs = "" \/ auth.rhs = "" THEN ResRaise("SecurityException", FALSE, FALSE)
    ELSE IF Lower(auth.lhs) \notin HTTPAuthenticationScheme
         THEN ResRaise("ValueError", FALSE, FALSE)   \* Enum lookup of an unknown value
    ELSE IF Lower(auth.lhs) # "basic" THEN ResNone(FALSE)
    ELSE LET dec == b64decode(auth.rhs)
             parts == split_colon(dec.chars)
         IN  IF ~dec.ok \/ Len(parts) # 2 THEN ResRaise("SecurityException", FALSE, FALSE)
             ELSE IF parts[1] = <<>> \/ parts[2] = <<>>
                  THEN ResRaise("SecurityException", FALSE, FALSE)
             ELSE IF r.is_none THEN ResRaise("SecurityException", TRUE, FALSE)
             ELSE Res("value", r, "", TRUE, FALSE)

validate_authorization_header(req, r) ==
    LET auth == extract_auth_header(req) IN
    IF auth.tag = "raise" THEN ResRaise("SecurityException", FALSE, FALSE)
    ELSE IF auth.tag = "none" THEN ResNone(FALSE)
    ELSE IF auth.lhs = "" \/ auth.rhs = "" THEN ResRaise("SecurityException", FALSE, FALSE)
    ELSE IF Lower(auth.lhs) # "bearer" THEN ResNone(FALSE)
    ELSE IF r.is_none THEN ResRaise("SecurityException", TRUE, FALSE)
    ELSE Res("value", r, "", TRUE, FALSE)

validate_api_key(req, r) ==
    LET auth == extract_auth_header(req) IN
    IF auth.tag = "raise" THEN ResRaise("SecurityException", FALSE, FALSE)
    ELSE IF auth.tag = "none" THEN ResNone(FALSE)
    ELSE IF auth.lhs = "" \/ auth.rhs = "" THEN ResRaise("SecurityException", FALSE, FALSE)
    ELSE IF Lower(auth.lhs) # "bearer" THEN ResNone(FALSE)
    ELSE IF r.is_none THEN ResRaise("SecurityException", TRUE, FALSE)
    ELSE Res("value", r, "", TRUE, FALSE)

\* variant: the set difference taken the wrong way round
validate_scopes_reversed(required_scopes, token_scopes) ==
    LET missing_scopes == ToSet(token_scopes) \ ToSet(required_scopes) IN
    [raises |-> missing_scopes # {}, ret |-> missing_scopes = {}]

\* [raises |-> a SecurityException is raised, ret |-> the value returned otherwise]
validate_scopes(required_scopes, token_scopes) ==
    LET missing_scopes == ToSet(required_scopes) \ ToSet(token_scopes) IN
    [raises |-> missing_scopes # {}, ret |-> missing_scopes = {}]

\* load_scope_validate_func(scheme) applied to the scopes; v is what the
\* user's validator returns when x_scope_validate_func is declared
scope_validate_func(custom, required_scopes, token_scopes, v) ==
    IF custom THEN [raises |-> FALSE, ret |-> v]
    ELSE validate_scopes(required_scopes, token_scopes)

\* token_info.get("scope", token_info.get("scopes", ""))
token_scopes_of(token_info) ==
    IF "scopes" \in token_info.keys THEN token_info.scopes ELSE <<>>

\* the tail shared by the http and httpApiKey checks: scope validation of a token_info
check_scopes(t, custom, required_scopes, v) ==
    LET sv == scope_validate_func(custom, required_scopes, token_scopes_of(t.info), v) IN
    IF sv.raises THEN ResRaise("SecurityException", t.called, TRUE)
    ELSE IF ~sv.ret THEN Res("err", NoneInfo, "", t.called, TRUE)
    ELSE Res("value", t.info, "", t.called, TRUE)

http_security_check(req, custom, required_scopes, r, v) ==
    LET t == validate_basic(req, r) IN
    IF t.tag = "raise" THEN t
    ELSE IF t.tag = "none" THEN ResNone(t.called)
    ELSE check_scopes(t, custom, required_scopes, v)

http_bearer_security_check(req, custom, required_scopes, r, v) ==
    LET t == validate_api_key(req, r) IN
    IF t.tag = "raise" THEN t
    ELSE IF t.tag = "none" THEN ResNone(t.called)
    ELSE check_scopes(t, custom, required_scopes, v)

http_api_key_security_check(req, custom, required_scopes, r, v) ==
    LET api_key == req.api_key IN    \* api_key_in = "header": request.headers.get(api_key_name)
    IF ~api_key.present THEN ResNone(FALSE)
    ELSE IF r.is_none THEN ResNone(TRUE)
    ELSE check_scopes(Res("value", r, "", TRUE, FALSE), custom, required_scopes, v)

\* load_scope_validate_func(scheme) runs inside the check, after
\* validate_authorization_header returned: it calls load_handler when the
\* scheme declares x_scope_validate_func
oauth2_security_check(req, custom, required_scopes, r, v) ==
    LET t == validate_authorization_header(req, r) IN
    IF t.tag = "raise" THEN t
    ELSE IF t.tag = "none" THEN [ResNone(t.called) EXCEPT !.loaded = custom]
    ELSE LET sv == scope_validate_func(custom, required_scopes, token_scopes_of(t.info), v)
         IN  IF sv.raises \/ ~sv.ret
             THEN [ResRaise("SecurityException", t.called, TRUE) EXCEPT !.loaded = custom]
             ELSE [Res("value", t.info, "", t.called, TRUE) EXCEPT !.loaded = custom]

\* load_handler(handler_id): "" when the object is imported, else the exception
load_handler(handler_id) == IF handler_id \in Importable THEN "" ELSE "AttributeError"

\* load_basic_info_func, load_token_info_func, load_api_key_info_func on the
\* scheme's reference: "" when the function is loaded, else the exception
load_info_func(handler_id) ==
    IF handler_id = "" THEN "SecurityException" ELSE load_handler(handler_id)

\* builder(requirement, scheme) up to the definition of the check: "" when a
\* check (or None) is returned, else the exception raised
build_error(requirement) ==
    LET scheme == security_schemes(requirement.name) IN
    CASE scheme.type = "http" /\ scheme.scheme = "basic" ->
            load_info_func(scheme.x_basic_info_func)
      [] scheme.type = "http" /\ scheme.scheme = "bearer" ->
            load_info_func(scheme.x_api_key_info_func)
      [] scheme.type = "oauth2" -> load_info_func(scheme.x_token_info_func)
      [] scheme.type = "httpApiKey" ->
            IF load_info_func(scheme.x_api_key_info_func) # ""
            THEN load_info_func(scheme.x_api_key_info_func)
            ELSE IF scheme.name = "" THEN "SecurityException"
            ELSE IF scheme.in_ \notin {"query", "header", "cookie"}
                 THEN "SecurityException"
            ELSE ""
      [] OTHER -> ""

\* the handler references that the builder of a requirement's check loads
build_loads(requirement, custom) ==
    LET scheme == security_schemes(requirement.name)
        scope == IF custom THEN {"handlers.validate_scopes"} ELSE {}
    IN  CASE scheme.type = "http" /\ scheme.scheme = "basic" ->
                {scheme.x_basic_info_func} \cup scope
          [] scheme.type = "http" /\ scheme.scheme = "bearer" ->
                {scheme.x_api_key_info_func} \cup scope
          [] scheme.type = "oauth2" -> {scheme.x_token_info_func}
          [] scheme.type = "httpApiKey" -> {scheme.x_api_key_info_func} \cup scope
          [] OTHER -> {}

\* _BUILDER_DISPATCH.get(scheme.type)(requirement, scheme): the kind of check built,
\* "None" when there is no builder or the builder returns None
builder(requirement) ==
    LET scheme == security_schemes(requirement.name) IN
    CASE scheme.type = "http" /\ scheme.scheme = "basic" -> "http_security_check"
      [] scheme.type = "http" /\ scheme.scheme = "bearer" -> "http_bearer_security_check"
      [] scheme.type = "oauth2" -> "oauth2_security_check"
      [] scheme.type = "httpApiKey" -> "http_api_key_security_check"
      [] OTHER -> "None"

IsBuilt(requirement) == builder(requirement) # "None"

\* variant: each built check is put in front of the list
Reverse(q) == [i \in 1..Len(q) |-> q[Len(q) + 1 - i]]
build_security_handler_reversed(security) == Reverse(SelectSeq(security, IsBuilt))

\* the security_checks list of build_security_handler: the requirements whose check was built
build_security_handler(security) == SelectSeq(security, IsBuilt)

\* the exception that ends build_security_handler: that of the first
\* requirement whose builder raises, "" when every builder returns
build_failure(security) ==
    LET failing == {i \in 1..Len(security) : build_error(security[i]) # ""} IN
    IF failing = {} THEN ""
    ELSE build_error(security[CHOOSE i \in failing : \A k \in failing : i <= k])

\* check(request) for the check built from a requirement
run_check(requirement, req, custom, r, v) ==
    CASE builder(requirement) = "http_security_check" ->
            http_security_check(req, custom, requirement.scopes, r, v)
      [] builder(requirement) = "http_bearer_security_check" ->
            http_bearer_security_check(req, custom, requirement.scopes, r, v)
      [] builder(requirement) = "oauth2_security_check" ->
            oauth2_security_check(req, custom, requirement.scopes, r, v)
      [] OTHER -> http_api_key_security_check(req, custom, requirement.scopes, r, v)


-----------------------------------------------------------------------------
(* Python values handed to the validation pipeline, JSON schemas, messages *)

MaxArgs == 2            \* longest tuple of positional arguments

Atoms == {"a"}

\* a value that is not a tuple, a tuple of such values, None
Atom(x) == [kind |-> "atom", items |-> <<x>>]
Tuple(s) == [kind |-> "tuple", items |-> s]
NoneValue == [kind |-> "none", items |-> <<>>]

ArgTuples == {Tuple(s) : s \in SeqsUpTo(Atoms, MaxArgs)}

Instances == {Atom(x) : x \in Atoms} \cup ArgTuples

\* positional arguments of emit: each one a tuple or not
EmitArgs == {<<>>} \cup {<<x>> : x \in Instances}

\* A JSON schema: its "type" and the instances jsonschema.validate accepts
NoSchema == [is_none |-> TRUE, type |-> "", accepts |-> {}]
JSONSchema(type, accepts) == [is_none |-> FALSE, type |-> type, accepts |-> accepts]

SchemaTypes == {"array", "object"}

NoMessageAck == [is_none |-> TRUE, args |-> NoSchema]
MessageAck(args) == [is_none |-> FALSE, args |-> args]

Message(name, payload, x_ack) == [name |-> name, payload |-> payload, x_ack |-> x_ack]

\* stands for None where a Message is optional
NoMessage == Message("", NoSchema, NoMessageAck)

EventNames == {"ping", "pong"}

\* the messages named "ping"; the payload schema and the x-ack schema of one
\* message differ in their type only
Messages ==
    { Message("ping",
              IF tp = "" THEN NoSchema ELSE JSONSchema(tp, acc),
              IF ta = "" THEN NoMessageAck ELSE MessageAck(JSONSchema(ta, acc)))
      : tp \in SchemaTypes \cup {""}, ta \in SchemaTypes \cup {""},
        acc \in SUBSET Instances }

\* request.headers: the names of the headers sent
HeaderChoices == {{}, {"Foo"}, {"foo"}}

\* request.args: the values of the query parameter "bar", in order
QueryValues == {"baz", "qux"}
ArgsChoices == {<<>>, <<"baz">>, <<"qux">>, <<"baz", "qux">>, <<"qux", "baz">>}

\* {k.lower(): v for k, v in request.headers.items()}
lower_keys(headers) == {Lower(k) : k \in headers}

\* request.args.to_dict(): the first value of each parameter
to_dict(args) == IF args = <<>> THEN <<>> ELSE <<Head(args)>>

\* schemas of bindings.ws.headers and bindings.ws.query
HeaderSchemas == {JSONSchema("object", acc) : acc \in SUBSET {{}, {"foo"}}}
QuerySchemas ==
    {JSONSchema("object", acc) : acc \in SUBSET ({<<>>} \cup {<<q>> : q \in QueryValues})}

\* a call made by the validation pipeline, with what it was given and its result
Call(fn, arg, result) == [fn |-> fn, arg |-> arg, result |-> result]

-----------------------------------------------------------------------------
(* Documents: security requirement lists, channels *)

Requirement(name, scopes) == [name |-> name, scopes |-> scopes]

\* Scopes MUST be empty unless the scheme is oauth2 (AsyncApiSpec.__post_init__)
ReqOf(name, scopes) ==
    Requirement(name, IF security_schemes(name).type = "oauth2" THEN scopes ELSE <<>>)

\* requirement lists of length <= n; every oauth2 requirement lists the scopes rs
ReqLists(n, rs) ==
    {[i \in 1..Len(names) |-> ReqOf(names[i], rs)] : names \in SeqsUpTo(SchemeNames, n)}

NoSecurity == [is_none |-> TRUE, reqs |-> <<>>]
SomeSecurity(reqs) == [is_none |-> FALSE, reqs |-> reqs]

\* bindings.ws: method ("" when None), headers and query schemas
Bindings(method, headers, query) ==
    [is_none |-> FALSE, method |-> method, headers |-> headers, query |-> query]
NoBindings == [is_none |-> TRUE, method |-> "", headers |-> NoSchema, query |-> NoSchema]
GetBindings == Bindings("GET", NoSchema, NoSchema)      \* bindings.ws.method = "GET"

BindingsChoices ==
    {NoBindings} \cup
    {Bindings(m, h, q) : m \in {"", "GET", "POST"}, h \in {NoSchema} \cup HeaderSchemas,
                         q \in {NoSchema} \cup QuerySchemas}

Channel(connect, bindings, x_security) ==
    [connect |-> connect, bindings |-> bindings, x_security |-> x_security]

\* requirement lists of the server model
ServerSecurityChoices ==
    { <<>>,
      <<Requirement("basic", <<>>)>>,
      <<Requirement("oauth2", <<"read">>)>>,
      <<Requirement("bearer", <<>>), Requirement("apiKey", <<>>)>>,
      <<Requirement("bearerInfo", <<>>)>>,
      <<Requirement("stale", <<>>)>> }

ChannelSecurityChoices ==
    { NoSecurity,
      SomeSecurity(<<>>),
      SomeSecurity(<<Requirement("basic", <<>>)>>),
      SomeSecurity(<<Requirement("apiKey", <<>>)>>),
      SomeSecurity(<<Requirement("x509", <<>>)>>),
      SomeSecurity(<<Requirement("oauth2", <<"write">>), Requirement("basic", <<>>)>>) }

\* requests of the bindings model; the method is matched as it was sent
BindingsRequests ==
    [authorization : {NoHeader}, api_key : {NoKey}, method : Methods \cup {"get"},
     headers : HeaderChoices, args : ArgsChoices]

\* requests of the server model
ServerRequests ==
    {q \in Requests : q.authorization \in
        {NoHeader, Header(<<"Basic", "dTpw">>), Header(<<"Bearer", "tok">>)}}

-----------------------------------------------------------------------------
(* State of a connection attempt *)

Pending == [tag |-> "pending", exc |-> ""]
Returned == [tag |-> "returned", exc |-> ""]
Raised(exc) == [tag |-> "raised", exc |-> exc]

\* ev "check": the i-th check ran; called: its info function was invoked and
\* returned ret; scoped: the scope validator was invoked (v: what the user's
\* validator returned); tag: the check's result.
\* ev "bindings", "connect", "noop": that stage was called with keywords kw.
\* loaded: load_handler was called while the check ran.
Event(ev, i, name, called, ret, scoped, v, tag, kw) ==
    [ev |-> ev, i |-> i, name |-> name, called |-> called, ret |-> ret,
     scoped |-> scoped, v |-> v, tag |-> tag, kw |-> kw, loaded |-> FALSE]
StageEvent(ev, kw) == Event(ev, 0, "", FALSE, NoneInfo, FALSE, FALSE, "", kw)

\* loaded: the handler references resolved by load_handler during registration
Unregistered ==
    [registered |-> FALSE, stages |-> <<>>, security_checks |-> <<>>, loaded |-> {}]

-----------------------------------------------------------------------------
(* asynction/validation.py *)

jsonschema_validate_with_error_handling(instance, schema, exc_type) ==
    IF instance \in schema.accepts THEN "ok" ELSE exc_type

jsonschema_validate_payload(instance, schema) ==
    jsonschema_validate_with_error_handling(instance, schema, "PayloadValidationException")

jsonschema_validate_bindings(instance, schema) ==
    jsonschema_validate_with_error_handling(instance, schema, "BindingsValidationException")

jsonschema_validate_ack(instance, schema) ==
    jsonschema_validate_with_error_handling(instance, schema,
                                            "MessageAckValidationException")

\* variant: a non-array schema is matched against each argument
validate_payload_each(args, schema) ==
    IF schema.is_none
    THEN IF Len(args.items) > 0 THEN "PayloadValidationException" ELSE "ok"
    ELSE IF schema.type = "array" THEN jsonschema_validate_payload(args, schema)
    ELSE IF Len(args.items) = 0 THEN "IndexError"
    ELSE IF \A i \in 1..Len(args.items) : Atom(args.items[i]) \in schema.accepts
         THEN "ok" ELSE "PayloadValidationException"

\* args[0] of the empty tuple is an IndexError
validate_payload(args, schema) ==
    IF schema.is_none
    THEN IF Len(args.items) > 0 THEN "PayloadValidationException" ELSE "ok"
    ELSE IF schema.type = "array" THEN jsonschema_validate_payload(args, schema)
    ELSE IF Len(args.items) > 1 THEN "PayloadValidationException"
    ELSE IF Len(args.items) = 0 THEN "IndexError"
    ELSE jsonschema_validate_payload(Atom(args.items[1]), schema)

validate_ack_args(args, message_ack_spec) ==
    IF message_ack_spec.is_none
    THEN IF Len(args.items) > 0 THEN "MessageAckValidationException" ELSE "ok"
    ELSE IF message_ack_spec.args.type = "array"
         THEN jsonschema_validate_ack(args, message_ack_spec.args)
    ELSE IF Len(args.items) > 1 THEN "MessageAckValidationException"
    ELSE IF Len(args.items) = 0 THEN "IndexError"
    ELSE jsonschema_validate_ack(Atom(args.items[1]), message_ack_spec.args)

\* what a registered callable did: its calls, how it ended, what it returned
Ran(calls, result, value) == [calls |-> calls, outcome |-> result, value |-> value]

\* variant: the user's handler runs before the payload is validated
publish_handler_with_validation_late(msg, args, ret) ==
    LET payload == validate_payload(args, msg.payload)
        handled == <<Call("handler", args, "ok"), Call("validate_payload", args, payload)>>
    IN  IF payload # "ok" THEN Ran(handled, Raised(payload), NoneValue)
        ELSE IF ret.kind # "none" /\ ~msg.x_ack.is_none
        THEN LET ack == jsonschema_validate_ack(ret, msg.x_ack.args)
             IN  Ran(Append(handled, Call("jsonschema_validate_ack", ret, ack)),
                     IF ack = "ok" THEN Returned ELSE Raised(ack),
                     IF ack = "ok" THEN ret ELSE NoneValue)
        ELSE Ran(handled, Returned, ret)

\* variant: a declared ack schema is applied to whatever the handler returned
publish_handler_with_validation_always(msg, args, ret) ==
    LET payload == validate_payload(args, msg.payload)
        validated == <<Call("validate_payload", args, payload)>>
        handled == Append(validated, Call("handler", args, "ok"))
    IN  IF payload # "ok" THEN Ran(validated, Raised(payload), NoneValue)
        ELSE IF ~msg.x_ack.is_none
        THEN LET ack == jsonschema_validate_ack(ret, msg.x_ack.args)
             IN  Ran(Append(handled, Call("jsonschema_validate_ack", ret, ack)),
                     IF ack = "ok" THEN Returned ELSE Raised(ack),
                     IF ack = "ok" THEN ret ELSE NoneValue)
        ELSE Ran(handled, Returned, ret)

\* publish_message_validator_factory(message)(handler): handler_with_validation(*args)
\* around a user handler that returns ret
publish_handler_with_validation(msg, args, ret) ==
    LET payload == validate_payload(args, msg.payload)
        validated == <<Call("validate_payload", args, payload)>>
        handled == Append(validated, Call("handler", args, "ok"))
    IN  IF payload # "ok" THEN Ran(validated, Raised(payload), NoneValue)
        ELSE IF ret.kind # "none" /\ ~msg.x_ack.is_none
        THEN LET ack == jsonschema_validate_ack(ret, msg.x_ack.args)
             IN  Ran(Append(handled, Call("jsonschema_validate_ack", ret, ack)),
                     IF ack = "ok" THEN Returned ELSE Raised(ack),
                     IF ack = "ok" THEN ret ELSE NoneValue)
        ELSE Ran(handled, Returned, ret)

\* callback_validator_factory(message)(callback): callback_with_validation(*args)
callback_with_validation(msg, args) ==
    LET ack == validate_ack_args(args, msg.x_ack)
        validated == <<Call("validate_ack_args", args, ack)>>
    IN  IF ack # "ok" THEN Ran(validated, Raised(ack), NoneValue)
        ELSE Ran(Append(validated, Call("callback", args, "ok")), Returned, NoneValue)

\* variant: the header names are matched as they were sent
validate_request_bindings_as_sent(req, bindings) ==
    IF bindings.is_none THEN "ok"
    ELSE IF bindings.method # "" /\ req.method # bindings.method
         THEN "BindingsValidationException"
    ELSE IF ~bindings.headers.is_none
            /\ jsonschema_validate_bindings(req.headers, bindings.headers) # "ok"
         THEN "BindingsValidationException"
    ELSE IF ~bindings.query.is_none
         THEN jsonschema_validate_bindings(to_dict(req.args), bindings.query)
    ELSE "ok"

\* bindings.ws.method is "" when it is None
validate_request_bindings(req, bindings) ==
    IF bindings.is_none THEN "ok"
    ELSE IF bindings.method # "" /\ req.method # bindings.method
         THEN "BindingsValidationException"
    ELSE IF ~bindings.headers.is_none
            /\ jsonschema_validate_bindings(lower_keys(req.headers), bindings.headers) # "ok"
         THEN "BindingsValidationException"
    ELSE IF ~bindings.query.is_none
         THEN jsonschema_validate_bindings(to_dict(req.args), bindings.query)
    ELSE "ok"

-----------------------------------------------------------------------------
(* asynction/server.py: AsynctionSocketIO._register_namespace_handlers *)

\* variant: the channel's list is tested for truthiness instead of None
effective_security_truthy(channel_security, srv_security) ==
    IF channel_security.reqs # <<>> THEN channel_security.reqs ELSE srv_security

\* channel_security if channel_security is not None else self.server_security
effective_security(channel_security, srv_security) ==
    IF ~channel_security.is_none THEN channel_security.reqs ELSE srv_security

\* variant: the security decorator is applied before the bindings decorator
connect_handler_security_inside(ch, valid, srv_security) ==
    LET security == effective_security(ch.x_security, srv_security)
        secured == IF security # <<>> THEN <<"handler_with_security">> ELSE <<>>
    IN  IF ch.connect
        THEN IF valid THEN <<"handler_with_validation">> \o secured \o <<"connect">>
             ELSE secured \o <<"connect">>
        ELSE secured \o <<"noop_handler">>

\* variant: security is applied only to a declared connect handler
connect_handler_declared_only(ch, valid, srv_security) ==
    LET security == effective_security(ch.x_security, srv_security)
        loaded == IF valid THEN <<"handler_with_validation", "connect">> ELSE <<"connect">>
    IN  IF ch.connect
        THEN IF security # <<>> THEN <<"handler_with_security">> \o loaded ELSE loaded
        ELSE <<"noop_handler">>

\* the connect_handler composed for the namespace, outermost stage first
connect_handler(ch, valid, srv_security) ==
    LET security == effective_security(ch.x_security, srv_security)
        loaded == IF ch.connect
                  THEN IF valid THEN <<"handler_with_validation", "connect">>
                       ELSE <<"connect">>
                  ELSE <<"noop_handler">>
    IN  IF security # <<>> THEN <<"handler_with_security">> \o loaded ELSE loaded

\* An exception of a builder leaves _register_namespace_handlers, and with it
\* the constructor of the server: no connection is served (pc = "failed").
register_namespace_handlers ==
    /\ pc = "init"
    /\ LET composed == connect_handler(channel, validation, server_security)
           security == effective_security(channel.x_security, server_security)
           built == build_security_handler(security)
           connect_ref == IF channel.connect THEN {"handlers.connect"} ELSE {}
       IN  IF build_failure(security) # ""
           THEN /\ handlers' = Unregistered
                /\ outcome' = Raised(build_failure(security))
                /\ pc' = "failed"
           ELSE /\ handlers' =
                     IF composed # <<"noop_handler">>
                     THEN [registered |-> TRUE, stages |-> composed,
                           security_checks |-> built,
                           loaded |-> connect_ref \cup
                              UNION {build_loads(built[i], custom_validator) :
                                        i \in 1..Len(built)}]
                     ELSE Unregistered
                /\ pc' = "idle"
                /\ UNCHANGED outcome
    /\ UNCHANGED <<pipeVars, validation, server_security, channel, custom_validator,
                   request, stack, idx, kwargs, log>>
    /\ UNCHANGED runVars

\* The transport receives a connection attempt and calls the registered
\* connect handler, if there is one; without one it accepts the connection.
connect_event(reqs) ==
    /\ pc \in {"idle", "done"}
    /\ \E q \in reqs :
        /\ request' = q
        /\ log' = <<>>
        /\ kwargs' = EmptyInfo
        /\ idx' = 1
        /\ IF handlers.registered
           THEN /\ pc' = Head(handlers.stages)
                /\ stack' = Tail(handlers.stages)
                /\ outcome' = Pending
           ELSE /\ pc' = "done"
                /\ stack' = <<>>
                /\ outcome' = Returned
    /\ UNCHANGED <<pipeVars, validation, server_security, channel, custom_validator, handlers>>
    /\ UNCHANGED runVars

\* One iteration of security_handler's loop, run by handler_with_security:
\* the info function returns r, the user's scope validator returns v.
security_handler ==
    /\ pc = "handler_with_security"
    /\ idx <= Len(handlers.security_checks)
    /\ LET requirement == handlers.security_checks[idx] IN
       \E r \in InfoResults(requirement.name), v \in BOOLEAN :
         LET c == run_check(requirement, request, custom_validator, r, v)
             e == [Event("check", idx, requirement.name, c.called,
                         IF c.called THEN r ELSE NoneInfo, c.scoped,
                         c.scoped /\ custom_validator /\ v, c.tag, EmptyInfo)
                   EXCEPT !.loaded = c.loaded]
         IN  /\ log' = Append(log, e)
             /\ CASE c.tag = "raise" ->
                       /\ outcome' = Raised(c.exc)
                       /\ pc' = "done"
                       /\ UNCHANGED <<idx, kwargs, stack>>
                  [] c.tag = "err" ->
                       /\ outcome' = Raised("SecurityException")
                       /\ pc' = "done"
                       /\ UNCHANGED <<idx, kwargs, stack>>
                  [] c.tag = "value" /\ Truthy(c.info) ->
                       /\ kwargs' = c.info
                       /\ pc' = Head(stack)
                       /\ stack' = Tail(stack)
                       /\ UNCHANGED <<idx, outcome>>
                  [] OTHER ->
                       /\ idx' = idx + 1
                       /\ UNCHANGED <<pc, kwargs, stack, outcome>>
    /\ UNCHANGED <<pipeVars, validation, server_security, channel, custom_validator, handlers, request>>
    /\ UNCHANGED runVars

\* the else branch of security_handler's loop
no_checks_passed ==
    /\ pc = "handler_with_security"
    /\ idx > Len(handlers.security_checks)
    /\ outcome' = Raised("SecurityException")
    /\ pc' = "done"
    /\ UNCHANGED <<pipeVars, validation, server_security, channel, custom_validator, handlers,
                   request, stack, idx, kwargs, log>>
    /\ UNCHANGED runVars

\* bindings_validator_factory's handler_with_validation(*args): it takes no
\* keyword arguments, so a call with keywords is a TypeError
handler_with_validation ==
    /\ pc = "handler_with_validation"
    /\ log' = Append(log, StageEvent("bindings", kwargs))
    /\ IF kwargs.keys # {}
       THEN /\ outcome' = Raised("TypeError")
            /\ pc' = "done"
            /\ UNCHANGED stack
       ELSE IF validate_request_bindings(request, channel.bindings) # "ok"
       THEN /\ outcome' = Raised(validate_request_bindings(request, channel.bindings))
            /\ pc' = "done"
            /\ UNCHANGED stack
       ELSE /\ pc' = Head(stack)
            /\ stack' = Tail(stack)
            /\ UNCHANGED outcome
    /\ UNCHANGED <<pipeVars, validation, server_security, channel, custom_validator, handlers,
                   request, idx, kwargs>>
    /\ UNCHANGED runVars

\* the user's connect handler, load_handler(channel_handlers.connect)
connect ==
    /\ pc = "connect"
    /\ log' = Append(log, StageEvent("connect", kwargs))
    /\ outcome' = Returned
    /\ pc' = "done"
    /\ UNCHANGED <<pipeVars, validation, server_security, channel, custom_validator, handlers,
                   request, stack, idx, kwargs>>
    /\ UNCHANGED runVars

\* _noop_handler(*args, **kwargs)
noop_handler ==
    /\ pc = "noop_handler"
    /\ log' = Append(log, StageEvent("noop", kwargs))
    /\ outcome' = Returned
    /\ pc' = "done"
    /\ UNCHANGED <<pipeVars, validation, server_security, channel, custom_validator, handlers,
                   request, stack, idx, kwargs>>
    /\ UNCHANGED runVars

-----------------------------------------------------------------------------
(* asynction/server.py: AsynctionSocketIO._register_handlers, emit *)

GLOBAL_NAMESPACE == "/"

Namespaces == {"/", "/admin"}

\* spec.channels.get(namespace): no such channel, a channel without a
\* subscribe operation, a channel whose subscribe operation has the message
ChannelKinds == {"absent", "publish", "subscribe"}

NoChannels == [ns \in Namespaces |-> "absent"]

\* the operation that is under way: an inbound event with its arguments and
\* what the user's handler returns, an emit, or an ack delivered to a callback
NoCall ==
    [op |-> "", event |-> "", args |-> <<>>, namespace |-> "", callback |-> FALSE,
     tuple |-> Tuple(<<>>), ret |-> NoneValue]
PublishCall(args, ret) == [NoCall EXCEPT !.op = "publish", !.tuple = args, !.ret = ret]
EmitCall(event, args, namespace, callback) ==
    [NoCall EXCEPT !.op = "emit", !.event = event, !.args = args,
                   !.namespace = namespace, !.callback = callback]
CallbackCall(args) == [NoCall EXCEPT !.op = "callback", !.tuple = args]

\* what super().emit was called with
NotEmitted ==
    [called |-> FALSE, event |-> "", args |-> <<>>, namespace |-> "", callback |-> "none"]
Emitted(event, args, namespace, callback) ==
    [called |-> TRUE, event |-> event, args |-> args, namespace |-> namespace,
     callback |-> callback]

\* the callable registered for a publish message, outermost first
register_handlers ==
    /\ pc = "init"
    /\ event_handler' = IF validation THEN <<"handler_with_validation", "handler">>
                        ELSE <<"handler">>
    /\ pc' = "idle"
    /\ UNCHANGED <<secVars, validation, outcome, message, channels, emitted, call,
                   trace, retval, document>>
    /\ UNCHANGED runVars

\* The transport delivers an event with positional arguments args to the
\* registered callable; the user's handler returns ret.
publish_event ==
    /\ pc \in {"idle", "done"}
    /\ event_handler # <<>>
    /\ \E args \in ArgTuples, ret \in Instances \cup {NoneValue} :
        LET run == IF Head(event_handler) = "handler_with_validation"
                   THEN publish_handler_with_validation(message, args, ret)
                   ELSE Ran(<<Call("handler", args, "ok")>>, Returned, ret)
        IN  /\ call' = PublishCall(args, ret)
            /\ trace' = run.calls
            /\ outcome' = run.outcome
            /\ retval' = run.value
    /\ pc' = "done"
    /\ UNCHANGED <<secVars, validation, message, channels, event_handler, emitted,
                   document>>
    /\ UNCHANGED runVars

\* channel.subscribe.message.with_name(event)
RECURSIVE with_name(_, _)
with_name(oneOf, name) ==
    IF oneOf = <<>> THEN NoMessage
    ELSE IF Head(oneOf).name = name THEN Head(oneOf)
    ELSE with_name(Tail(oneOf), name)

\* args and args[0] if isinstance(args[0], tuple) else (args[0],)
payload_args(args) ==
    IF args[1].kind = "tuple" THEN args[1]
    ELSE IF args[1].kind = "none" THEN Tuple(<<"None">>)
    ELSE Tuple(<<args[1].items[1]>>)

\* how the validation of emit ended: the exception raised ("" when none),
\* the callback handed on, the validators called
Checked(exc, callback, calls) == [exc |-> exc, callback |-> callback, calls |-> calls]

\* variant: the callback is wrapped only for a message that declares x-ack
emit_validation_declared_ack(chans, msg, event, args, namespace, callback) ==
    LET ns == IF namespace = "" THEN GLOBAL_NAMESPACE ELSE namespace
        found == with_name(<<msg>>, event)
    IN  IF chans[ns] = "absent" THEN Checked("ValidationException", "none", <<>>)
        ELSE IF chans[ns] # "subscribe" THEN Checked("ValidationException", "none", <<>>)
        ELSE IF found = NoMessage THEN Checked("ValidationException", "none", <<>>)
        ELSE IF args = <<>> THEN Checked("IndexError", "none", <<>>)
        ELSE LET payload == validate_payload(payload_args(args), found.payload)
                 calls == <<Call("validate_payload", payload_args(args), payload)>>
             IN  IF payload # "ok" THEN Checked(payload, "none", calls)
                 ELSE IF callback /\ ~found.x_ack.is_none
                      THEN Checked("", "callback_with_validation", calls)
                 ELSE Checked("", IF callback THEN "callback" ELSE "none", calls)

\* the body of "if self.validation:" in emit; isinstance(args[0], tuple) without
\* positional arguments is an IndexError
emit_validation(chans, msg, event, args, namespace, callback) ==
    LET ns == IF namespace = "" THEN GLOBAL_NAMESPACE ELSE namespace
        found == with_name(<<msg>>, event)
    IN  IF chans[ns] = "absent" THEN Checked("ValidationException", "none", <<>>)
        ELSE IF chans[ns] # "subscribe" THEN Checked("ValidationException", "none", <<>>)
        ELSE IF found = NoMessage THEN Checked("ValidationException", "none", <<>>)
        ELSE IF args = <<>> THEN Checked("IndexError", "none", <<>>)
        ELSE LET payload == validate_payload(payload_args(args), found.payload)
                 calls == <<Call("validate_payload", payload_args(args), payload)>>
             IN  IF payload # "ok" THEN Checked(payload, "none", calls)
                 ELSE IF callback THEN Checked("", "callback_with_validation", calls)
                 ELSE Checked("", "none", calls)

\* AsynctionSocketIO.emit(event, *args, namespace=..., callback=...); namespace
\* "" and callback FALSE stand for the keyword not being given. An emit does
\* not depend on the emits before it: a behaviour has one.
emit ==
    /\ pc = "idle"
    /\ \E event \in EventNames, args \in EmitArgs, namespace \in Namespaces \cup {""},
          callback \in BOOLEAN :
        LET run == IF validation
                   THEN emit_validation(channels, message, event, args, namespace, callback)
                   ELSE Checked("", IF callback THEN "callback" ELSE "none", <<>>)
        IN  /\ call' = EmitCall(event, args, namespace, callback)
            /\ trace' = run.calls
            /\ IF run.exc = ""
               THEN /\ emitted' = Emitted(event, args, namespace, run.callback)
                    /\ outcome' = Returned
               ELSE /\ emitted' = NotEmitted
                    /\ outcome' = Raised(run.exc)
    /\ pc' = "done"
    /\ UNCHANGED <<secVars, validation, message, channels, event_handler, retval,
                   document>>
    /\ UNCHANGED runVars

\* The transport receives the client's ack and calls the callback that emit
\* handed to it.
callback_event ==
    /\ pc = "done"
    /\ emitted.called
    /\ emitted.callback # "none"
    /\ \E args \in ArgTuples :
        LET run == IF emitted.callback = "callback_with_validation"
                   THEN callback_with_validation(message, args)
                   ELSE Ran(<<Call("callback", args, "ok")>>, Returned, NoneValue)
        IN  /\ call' = CallbackCall(args)
            /\ trace' = run.calls
            /\ outcome' = run.outcome
    /\ UNCHANGED <<secVars, validation, pc, message, channels, event_handler, emitted,
                   retval, document>>
    /\ UNCHANGED runVars

\* variant: the handlers are registered whatever app is
init_app_always ==
    /\ pc = "init"
    /\ IF TRUE
       THEN LET composed == connect_handler(channel, validation, server_security)
                security == effective_security(channel.x_security, server_security)
                built == build_security_handler(security)
                connect_ref == IF channel.connect THEN {"handlers.connect"} ELSE {}
            IN  IF build_failure(security) # ""
                THEN /\ handlers' = Unregistered
                     /\ outcome' = Raised(build_failure(security))
                     /\ pc' = "failed"
                     /\ UNCHANGED event_handler
                ELSE /\ event_handler' =
                          IF \E ns \in Namespaces : channels[ns] = "publish"
                          THEN IF validation
                               THEN <<"handler_with_validation", "handler">>
                               ELSE <<"handler">>
                          ELSE <<>>
                     /\ handlers' =
                          IF composed # <<"noop_handler">>
                          THEN [registered |-> TRUE, stages |-> composed,
                                security_checks |-> built,
                                loaded |-> connect_ref \cup
                                   UNION {build_loads(built[i], custom_validator) :
                                             i \in 1..Len(built)}]
                          ELSE Unregistered
                     /\ pc' = "idle"
                     /\ UNCHANGED outcome
       ELSE /\ pc' = "idle"
            /\ UNCHANGED <<handlers, event_handler, outcome>>
    /\ UNCHANGED <<validation, server_security, channel, custom_validator, request,
                   stack, idx, kwargs, log, message, channels, emitted, call, trace,
                   retval, document>>
    /\ UNCHANGED runVars

\* AsynctionSocketIO.init_app(app, **kwargs), called by the constructor of
\* SocketIO: self._register_handlers() if app is not None
init_app ==
    /\ pc = "init"
    /\ IF app
       THEN LET composed == connect_handler(channel, validation, server_security)
                security == effective_security(channel.x_security, server_security)
                built == build_security_handler(security)
                connect_ref == IF channel.connect THEN {"handlers.connect"} ELSE {}
            IN  IF build_failure(security) # ""
                THEN /\ handlers' = Unregistered
                     /\ outcome' = Raised(build_failure(security))
                     /\ pc' = "failed"
                     /\ UNCHANGED event_handler
                ELSE /\ event_handler' =
                          IF \E ns \in Namespaces : channels[ns] = "publish"
                          THEN IF validation
                               THEN <<"handler_with_validation", "handler">>
                               ELSE <<"handler">>
                          ELSE <<>>
                     /\ handlers' =
                          IF composed # <<"noop_handler">>
                          THEN [registered |-> TRUE, stages |-> composed,
                                security_checks |-> built,
                                loaded |-> connect_ref \cup
                                   UNION {build_loads(built[i], custom_validator) :
                                             i \in 1..Len(built)}]
                          ELSE Unregistered
                     /\ pc' = "idle"
                     /\ UNCHANGED outcome
       ELSE /\ pc' = "idle"
            /\ UNCHANGED <<handlers, event_handler, outcome>>
    /\ UNCHANGED <<validation, server_security, channel, custom_validator, request,
                   stack, idx, kwargs, log, message, channels, emitted, call, trace,
                   retval, document>>
    /\ UNCHANGED runVars

-----------------------------------------------------------------------------
(* asynction/mock_server.py: MockAsynctionSocketIO *)

\* a generator that draws any JSON value, whatever the schema
generate_fake_data_any_value(schema) ==
    {NoneValue} \cup {ex \in Instances : ex.kind = "atom"}

\* generate_fake_data_from_schema(message.payload or {"type": "null"}, ...):
\* the examples drawn are JSON values that the schema accepts, never a
\* tuple; the only instance of {"type": "null"} is None
generate_fake_data_from_schema(schema) ==
    IF schema.is_none THEN {NoneValue}
    ELSE {ex \in schema.accepts : ex.kind = "atom"}

\* The task that make_subscription_task(message, namespace) makes for a
\* subscribe message, run by a task runner:
\* self.emit(message.name, data, namespace=namespace,
\*           callback=message.x_ack and _noop_handler)
subscription_task ==
    /\ pc = "idle"
    /\ \E namespace \in Namespaces :
        /\ channels[namespace] = "subscribe"
        /\ \E data \in generate_fake_data_from_schema(message.payload) :
            LET args == <<data>>
                callback == ~message.x_ack.is_none
                run == IF validation
                       THEN emit_validation(channels, message, message.name, args,
                                            namespace, callback)
                       ELSE Checked("", IF callback THEN "callback" ELSE "none", <<>>)
            IN  /\ call' = EmitCall(message.name, args, namespace, callback)
                /\ trace' = run.calls
                /\ IF run.exc = ""
                   THEN /\ emitted' = Emitted(message.name, args, namespace, run.callback)
                        /\ outcome' = Returned
                   ELSE /\ emitted' = NotEmitted
                        /\ outcome' = Raised(run.exc)
    /\ pc' = "done"
    /\ UNCHANGED <<secVars, validation, message, channels, event_handler, retval,
                   document>>
    /\ UNCHANGED runVars

\* the connect handler that MockAsynctionSocketIO._register_handlers composes
\* for a namespace, outermost stage first
mock_connect_handler(valid) ==
    IF valid THEN <<"handler_with_validation", "noop_handler">> ELSE <<"noop_handler">>

\* MockAsynctionSocketIO._register_handlers, for the connect event of the
\* namespace: self.on_event("connect", connect_handler, namespace)
mock_register_handlers ==
    /\ pc = "init"
    /\ handlers' = [registered |-> TRUE, stages |-> mock_connect_handler(validation),
                    security_checks |-> <<>>, loaded |-> {}]
    /\ pc' = "idle"
    /\ UNCHANGED <<pipeVars, validation, server_security, channel, custom_validator,
                   request, stack, idx, kwargs, log, outcome>>
    /\ UNCHANGED runVars

\* the most subscription tasks of a spec, the largest max_worker_number
\* passed to run, and the most steps of the scheduler that are followed
MaxTasks == 2
MaxWorkers == 2
MaxSchedulerSteps == 7

\* the closure that make_subscription_task(message, namespace) returns
SubscriptionTask(msg, namespace) == [message |-> msg, namespace |-> namespace]

\* subscribe messages: one without payload, one with an object payload
SubscribeMessages ==
    { Message("ping", NoSchema, NoMessageAck),
      Message("pong", JSONSchema("object", {Atom("a")}), NoMessageAck) }

SubscriptionTasks ==
    {SubscriptionTask(m, "/admin") : m \in SubscribeMessages}
        \cup {SubscriptionTask(Message("ping", JSONSchema("object", {Atom("a")}),
                                       NoMessageAck), "/")}

\* self._subscription_tasks after _register_handlers: the tasks of the
\* subscribe messages, in the order of spec.channels and of oneOf
TaskLists == SeqsUpTo(SubscriptionTasks, MaxTasks)

\* how a call task() can end: the exception raised by its self.emit(...),
\* "" when it returns
task_outcomes(task, valid) ==
    LET chans == [ns \in Namespaces |->
                     IF ns = task.namespace THEN "subscribe" ELSE "absent"]
    IN  { IF valid
          THEN emit_validation(chans, task.message, task.message.name, <<data>>,
                               task.namespace, ~task.message.x_ack.is_none).exc
          ELSE ""
          : data \in generate_fake_data_from_schema(task.message.payload) }

\* variant of the built-in min: the larger of the two
max(a, b) == IF a >= b THEN a ELSE b

\* Python's built-in min(a, b)
min(a, b) == IF a <= b THEN a ELSE b

\* a task_runner thread: at queue.get(), in task(), or ended by an exception
\* that task() raised; an item of the queue is the task and, for the
\* record, the number of the put that enqueued it
NoItem == [task |-> SubscriptionTask(NoMessage, ""), serial |-> 0]
Runner(state, item) == [state |-> state, item |-> item]

\* an entry of sched_log
SchedEvent(ev, i) == [ev |-> ev, i |-> i]

\* an entry of executions: the runners that called the task, and whether
\* queue.task_done() followed
NotExecuted == [called |-> {}, task_done |-> FALSE]

\* MockAsynctionSocketIO.run(app, subscription_task_interval, max_worker_number)
run ==
    /\ pc = "idle"
    /\ background = <<>>
    /\ \E n \in 0..MaxWorkers :
        LET workers == min(n, Len(subscription_tasks))
        IN  /\ max_worker_number' = n
            /\ runners' = [w \in 1..workers |-> Runner("get", NoItem)]
            /\ background' = [w \in 1..workers |-> "task_runner"]
                                 \o <<"task_scheduler", "SocketIO.run">>
    /\ scheduler' = [state |-> "while", i |-> 0]
    /\ queue' = <<>>
    /\ pc' = "running"
    /\ UNCHANGED <<secVars, pipeVars, validation, outcome, app, subscription_tasks,
                   sched_log, executions>>

\* task_scheduler: "while True:" and the start of "for task in tasks:"
task_scheduler_while ==
    /\ scheduler.state = "while"
    /\ Len(sched_log) < MaxSchedulerSteps
    /\ sched_log' = Append(sched_log, SchedEvent("pass", 0))
    /\ scheduler' = IF subscription_tasks = <<>> THEN scheduler
                    ELSE [state |-> "put", i |-> 1]
    /\ UNCHANGED <<secVars, pipeVars, validation, pc, outcome, app, subscription_tasks,
                   max_worker_number, background, queue, runners, executions>>

\* task_scheduler: queue.put(task); the queue has no maximum size
task_scheduler_put ==
    /\ scheduler.state = "put"
    /\ Len(sched_log) < MaxSchedulerSteps
    /\ queue' = Append(queue, [task |-> subscription_tasks[scheduler.i],
                               serial |-> Len(executions) + 1])
    /\ executions' = Append(executions, NotExecuted)
    /\ sched_log' = Append(sched_log, SchedEvent("put", scheduler.i))
    /\ scheduler' = [scheduler EXCEPT !.state = "sleep"]
    /\ UNCHANGED <<secVars, pipeVars, validation, pc, outcome, app, subscription_tasks,
                   max_worker_number, background, runners>>

\* variant: after a sleep the for loop starts again
task_scheduler_sleep_restart ==
    /\ scheduler.state = "sleep"
    /\ Len(sched_log) < MaxSchedulerSteps
    /\ sched_log' = Append(sched_log, SchedEvent("sleep", 0))
    /\ scheduler' = [state |-> "while", i |-> 0]
    /\ UNCHANGED <<secVars, pipeVars, validation, pc, outcome, app, subscription_tasks,
                   max_worker_number, background, queue, runners, executions>>

\* variant: one sleep after the for loop, none between two tasks
task_scheduler_sleep_per_pass ==
    /\ scheduler.state = "sleep"
    /\ Len(sched_log) < MaxSchedulerSteps
    /\ sched_log' = IF scheduler.i < Len(subscription_tasks) THEN sched_log
                    ELSE Append(sched_log, SchedEvent("sleep", 0))
    /\ scheduler' = IF scheduler.i < Len(subscription_tasks)
                    THEN [state |-> "put", i |-> scheduler.i + 1]
                    ELSE [state |-> "while", i |-> 0]
    /\ UNCHANGED <<secVars, pipeVars, validation, pc, outcome, app, subscription_tasks,
                   max_worker_number, background, queue, runners, executions>>

\* task_scheduler: sleep(), then the next task of the for loop or, after the
\* last one, the next pass of the while loop
task_scheduler_sleep ==
    /\ scheduler.state = "sleep"
    /\ Len(sched_log) < MaxSchedulerSteps
    /\ sched_log' = Append(sched_log, SchedEvent("sleep", 0))
    /\ scheduler' = IF scheduler.i < Len(subscription_tasks)
                    THEN [state |-> "put", i |-> scheduler.i + 1]
                    ELSE [state |-> "while", i |-> 0]
    /\ UNCHANGED <<secVars, pipeVars, validation, pc, outcome, app, subscription_tasks,
                   max_worker_number, background, queue, runners, executions>>

\* task_runner: task = queue.get(), which blocks while the queue is empty
task_runner_get ==
    /\ \E w \in 1..Len(runners) :
        /\ runners[w].state = "get"
        /\ queue # <<>>
        /\ runners' = [runners EXCEPT ![w] = Runner("task", Head(queue))]
        /\ queue' = Tail(queue)
    /\ UNCHANGED <<secVars, pipeVars, validation, pc, outcome, app, subscription_tasks,
                   max_worker_number, background, scheduler, sched_log, executions>>

\* task_runner: task(), then queue.task_done() and the next pass of the
\* loop; an exception raised by task() is not caught and ends the thread
task_runner_task ==
    /\ \E w \in 1..Len(runners) :
        /\ runners[w].state = "task"
        /\ \E exc \in task_outcomes(runners[w].item.task, validation) :
            /\ executions' =
                   [executions EXCEPT ![runners[w].item.serial] =
                       [called |-> @.called \cup {w}, task_done |-> exc = ""]]
            /\ runners' = [runners EXCEPT ![w] =
                              IF exc = "" THEN Runner("get", NoItem)
                              ELSE Runner("dead", NoItem)]
    /\ UNCHANGED <<secVars, pipeVars, validation, pc, outcome, app, subscription_tasks,
                   max_worker_number, background, queue, scheduler, sched_log>>

-----------------------------------------------------------------------------
(* asynction/types.py: construction of Channel and AsyncApiSpec *)

MaxMessages == 3        \* longest message list of a publish operation

NoOperation == [is_none |-> TRUE, oneOf |-> <<>>]
Operation(oneOf) == [is_none |-> FALSE, oneOf |-> oneOf]

\* a message under publish: x_handler is "" when it is None
PublishMessages == [name : EventNames, x_handler : {"", "handlers.on_event"}]

PublishChoices ==
    {NoOperation} \cup {Operation(s) : s \in SeqsUpTo(PublishMessages, MaxMessages)}

\* publish operations of the documents whose security is constructed
DocumentPublishChoices ==
    { NoOperation,
      Operation(<<[name |-> "ping", x_handler |-> "handlers.on_event"]>>),
      Operation(<<[name |-> "ping", x_handler |-> "handlers.on_event"],
                  [name |-> "pong", x_handler |-> ""]>>) }

\* names a requirement may refer to; "ghost" is not in components.securitySchemes
ComponentNames == SchemeNames \cup {"oidc"}
ReferredNames == {"basic", "oauth2", "oidc", "ghost"}

\* requirement.items() of a security requirement, in the mapping's order
RawRequirements(rs) ==
    {<<Requirement(n, s)>> : n \in ReferredNames, s \in {<<>>, rs}}
        \cup {<<Requirement("basic", <<>>), Requirement("apiKey", <<>>)>>,
              <<Requirement("oauth2", rs), Requirement("basic", <<>>)>>}

RawReqLists(n, rs) == SeqsUpTo(RawRequirements(rs), n)

\* the scopes of each declared flow of the oauth2 scheme, in field order
FlowChoices == {<<<<"read">>>>, <<<<"read", "write">>>>, <<<<"read">>, <<"write">>>>}

\* the document: the oauth2 flows, the server's security, the channel's
\* x-security and publish operation
Document(flows, security, x_security, publish) ==
    [flows |-> flows, security |-> security, x_security |-> x_security,
     publish |-> publish]

NoDocument == Document(<<>>, <<>>, NoSecurity, NoOperation)

\* variant: only the first message is looked at
Channel_post_init_first(publish) ==
    IF publish.is_none \/ publish.oneOf = <<>> THEN "ok"
    ELSE IF Head(publish.oneOf).x_handler = "" THEN "ValueError"
    ELSE "ok"

\* Channel.__post_init__
Channel_post_init(publish) ==
    IF publish.is_none THEN "ok"
    ELSE IF \E i \in 1..Len(publish.oneOf) : publish.oneOf[i].x_handler = ""
         THEN "ValueError"
    ELSE "ok"

\* OAuth2Flows.supported_scopes(): a generator over the flows' scopes
RECURSIVE supported_scopes(_)
supported_scopes(flows) ==
    IF flows = <<>> THEN <<>> ELSE Head(flows) \o supported_scopes(Tail(flows))

\* "scope in supported_scopes" on the generator: whether it is found, and
\* what is left of the generator afterwards
RECURSIVE search(_, _)
search(gen, scope) ==
    IF gen = <<>> THEN [found |-> FALSE, rest |-> <<>>]
    ELSE IF Head(gen) = scope THEN [found |-> TRUE, rest |-> Tail(gen)]
    ELSE search(Tail(gen), scope)

\* the loop "for scope in scopes: if scope not in supported_scopes: raise"
RECURSIVE scopes_supported(_, _)
scopes_supported(scopes, gen) ==
    IF scopes = <<>> THEN TRUE
    ELSE LET s == search(gen, Head(scopes))
         IN  s.found /\ scopes_supported(Tail(scopes), s.rest)

\* variant: a requirement with several keys is judged by its first key
validate_security_requirement_first_key(requirement, flows) ==
    LET security_scheme_name == requirement[1].name
        scopes == requirement[1].scopes
        type == security_schemes(security_scheme_name).type
    IN  IF security_scheme_name \notin ComponentNames THEN "ValueError"
        ELSE IF scopes = <<>> THEN "ok"
        ELSE IF type \notin {"oauth2", "openIdConnect"} THEN "ValueError"
        ELSE IF type = "oauth2" /\ ~scopes_supported(scopes, supported_scopes(flows))
             THEN "ValueError"
        ELSE "ok"

\* AsyncApiSpec._validate_security_requirement
validate_security_requirement(requirement, flows) ==
    LET security_scheme_name == requirement[1].name
        scopes == requirement[1].scopes
        type == security_schemes(security_scheme_name).type
    IN  IF Len(requirement) > 1 THEN "ValueError"
        ELSE IF security_scheme_name \notin ComponentNames THEN "ValueError"
        ELSE IF scopes = <<>> THEN "ok"
        ELSE IF type \notin {"oauth2", "openIdConnect"} THEN "ValueError"
        ELSE IF type = "oauth2" /\ ~scopes_supported(scopes, supported_scopes(flows))
             THEN "ValueError"
        ELSE "ok"

\* AsyncApiSpec.__post_init__
AsyncApiSpec_post_init(doc) ==
    LET valid(reqs) ==
            \A i \in 1..Len(reqs) : validate_security_requirement(reqs[i], doc.flows) = "ok"
    IN  IF ~valid(doc.security) THEN "ValueError"
        ELSE IF ~doc.x_security.is_none /\ ~valid(doc.x_security.reqs) THEN "ValueError"
        ELSE "ok"

\* flows of a scheme: None, or the declared flows; each flow is its field
\* name and whether the URL that OAuth2Flows.__post_init__ asks of it is given
NoFlows == [is_none |-> TRUE, declared |-> <<>>]
OAuth2Flows(declared) == [is_none |-> FALSE, declared |-> declared]
OAuth2Flow(field, url) == [field |-> field, url |-> url]

SchemeFlowChoices ==
    { NoFlows,
      OAuth2Flows(<<>>),
      OAuth2Flows(<<OAuth2Flow("implicit", TRUE)>>),
      OAuth2Flows(<<OAuth2Flow("implicit", FALSE)>>),
      OAuth2Flows(<<OAuth2Flow("implicit", TRUE), OAuth2Flow("password", TRUE)>>) }

\* the data of a security scheme object; "" is a missing field
SchemeData ==
    [type : {"http", "httpApiKey", "oauth2", "openIdConnect", "X509"},
     scheme : {"", "basic", "bearer"},
     in_ : {"", "user", "query", "header", "cookie"},
     name : {"", "X-API-Key"},
     flows : SchemeFlowChoices]

\* OAuth2Flows.__post_init__
OAuth2Flows_post_init(flows) ==
    IF \E i \in 1..Len(flows.declared) : ~flows.declared[i].url THEN "ValueError" ELSE "ok"

\* variant: every member of ApiKeyLocation is accepted as the location
SecurityScheme_post_init_any_location(type, scheme, in_, name, flows) ==
    IF flows.is_none /\ type \in {"oauth2", "openIdConnect"} THEN "ValueError"
    ELSE IF type = "http" /\ scheme = "" THEN "ValueError"
    ELSE IF type = "httpApiKey"
         THEN IF in_ = "" THEN "ValueError"
              ELSE IF name = "" THEN "ValueError" ELSE "ok"
    ELSE "ok"

\* SecurityScheme.__post_init__; an OAuth2Flows object is truthy whatever it
\* declares, so "not self.flows" holds of None only
SecurityScheme_post_init(type, scheme, in_, name, flows) ==
    IF flows.is_none /\ type \in {"oauth2", "openIdConnect"} THEN "ValueError"
    ELSE IF type = "http" /\ scheme = "" THEN "ValueError"
    ELSE IF type = "httpApiKey"
         THEN IF in_ = "" \/ in_ \notin {ApiKeyLocation("query"), ApiKeyLocation("header"),
                                         ApiKeyLocation("cookie")}
              THEN "ValueError"
              ELSE IF name = "" THEN "ValueError" ELSE "ok"
    ELSE "ok"

\* SecurityScheme.forge(type_, data, forge): the fields are forged, flows
\* first validated by OAuth2Flows, then the dataclass is constructed
SecurityScheme_forge ==
    /\ pc = "init"
    /\ LET data == document
           in_ == IF data.in_ = "" THEN "" ELSE ApiKeyLocation(data.in_)
           flows == IF data.flows.is_none THEN "ok" ELSE OAuth2Flows_post_init(data.flows)
           post == SecurityScheme_post_init(data.type, data.scheme, in_, data.name,
                                            data.flows)
       IN  outcome' = IF flows # "ok" THEN Raised(flows)
                      ELSE IF post # "ok" THEN Raised(post)
                      ELSE Returned
    /\ pc' = "done"
    /\ UNCHANGED <<secVars, validation, message, channels, event_handler, emitted, call,
                   trace, retval, document>>
    /\ UNCHANGED runVars

\* Channel(publish=...)
construct_channel ==
    /\ pc = "init"
    /\ outcome' = IF Channel_post_init(document.publish) = "ok" THEN Returned
                  ELSE Raised(Channel_post_init(document.publish))
    /\ pc' = "done"
    /\ UNCHANGED <<secVars, validation, message, channels, event_handler, emitted, call,
                   trace, retval, document>>
    /\ UNCHANGED runVars

\* a document with the names of its fields that the typed model does not represent
WithExtensions(doc, extensions) ==
    [flows |-> doc.flows, security |-> doc.security, x_security |-> doc.x_security,
     publish |-> doc.publish, extensions |-> extensions]

\* forge(AsyncApiSpec, data): the typed model holds the fields it declares
forge(data) == Document(data.flows, data.security, data.x_security, data.publish)

\* asdict(self): the mapping of the typed model's fields
asdict(self) == WithExtensions(self.typed, {})

\* an AsyncApiSpec; has_raw: the attribute _raw is set, to raw
AsyncApiSpec(typed, has_raw, raw) == [typed |-> typed, has_raw |-> has_raw, raw |-> raw]

\* variant: the typed model is serialised again
AsyncApiSpec_to_dict_asdict(self) == asdict(self)

\* AsyncApiSpec.to_dict: getattr(self, "_raw", asdict(self))
AsyncApiSpec_to_dict(self) == IF self.has_raw THEN self.raw ELSE asdict(self)

\* AsyncApiSpec.from_dict(data): the channels are built first, then the
\* spec, which keeps data as _raw
from_dict ==
    /\ pc = "init"
    /\ IF Channel_post_init(document.publish) # "ok"
       THEN /\ outcome' = Raised(Channel_post_init(document.publish))
            /\ UNCHANGED retval
       ELSE IF AsyncApiSpec_post_init(document) # "ok"
       THEN /\ outcome' = Raised(AsyncApiSpec_post_init(document))
            /\ UNCHANGED retval
       ELSE /\ outcome' = Returned
            /\ retval' = AsyncApiSpec(forge(document), TRUE, document)
    /\ pc' = "done"
    /\ UNCHANGED <<secVars, validation, message, channels, event_handler, emitted, call,
                   trace, document>>
    /\ UNCHANGED runVars

\* AsyncApiSpec(...) called with the channels and the other fields of the
\* document: no _raw is kept
construct_spec ==
    /\ pc = "init"
    /\ IF Channel_post_init(document.publish) # "ok"
       THEN /\ outcome' = Raised(Channel_post_init(document.publish))
            /\ UNCHANGED retval
       ELSE IF AsyncApiSpec_post_init(document) # "ok"
       THEN /\ outcome' = Raised(AsyncApiSpec_post_init(document))
            /\ UNCHANGED retval
       ELSE /\ outcome' = Returned
            /\ retval' = AsyncApiSpec(forge(document), FALSE, document)
    /\ pc' = "built"
    /\ UNCHANGED <<secVars, validation, message, channels, event_handler, emitted, call,
                   trace, document>>
    /\ UNCHANGED runVars

\* spec.to_dict() on the spec that was constructed
spec_to_dict ==
    /\ pc \in {"done", "built"}
    /\ outcome = Returned
    /\ retval' = AsyncApiSpec_to_dict(retval)
    /\ pc' = IF pc = "done" THEN "dumped" ELSE "dumped_built"
    /\ UNCHANGED <<secVars, validation, message, channels, event_handler, emitted, call,
                   trace, document, outcome>>
    /\ UNCHANGED runVars

-----------------------------------------------------------------------------
(* asynction/server.py: resolve_references *)

\* JSON values of a raw document: kind, the text of a string, the keys of a
\* mapping, the items of a container (of a mapping: its values, by key)
Str(text) == [kind |-> "str", text |-> text, keys |-> <<>>, items |-> <<>>]
Number == [kind |-> "int", text |-> "", keys |-> <<>>, items |-> <<>>]
Boolean == [kind |-> "bool", text |-> "", keys |-> <<>>, items |-> <<>>]
Null == [kind |-> "None", text |-> "", keys |-> <<>>, items |-> <<>>]
Mapping(keys, items) == [kind |-> "dict", text |-> "", keys |-> keys, items |-> items]
Container(kind, items) == [kind |-> kind, text |-> "", keys |-> <<>>, items |-> items]

\* the reference object {"$ref": pointer}
Reference(pointer) == Mapping(<<"$ref">>, <<Str(pointer)>>)

\* strings of which "$ref" is a substring
ContainingRef == {"$ref", "see $ref"}

Scalars == {Str("string"), Str("see $ref"), Number, Boolean, Null}

\* values without a reference object
Plain ==
    Scalars
      \cup {Container(k, <<x>>) : k \in {"list", "tuple", "set"},
                                  x \in {Str("string"), Str("$ref"), Number}}
      \cup {Mapping(<<"type">>, <<x>>) : x \in {Str("string"), Number}}
      \cup {Mapping(<<"payload">>, <<Mapping(<<"type">>, <<Str("string")>>)>>)}

\* values that refer to the pointers ps
Referring(ps) ==
    {Reference(ptr) : ptr \in ps}
      \cup {Mapping(<<"message">>, <<Reference(ptr)>>) : ptr \in ps}
      \cup {Container(k, <<Reference(ptr), Mapping(<<"type">>, <<Str("string")>>)>>) :
                k \in {"list", "tuple"}, ptr \in ps}

\* acyclic documents {"a": ..., "b": ..., "c": ...}: a may refer to b and c,
\* b to c, c to nothing
RawSpecs ==
    {Mapping(<<"a", "b", "c">>, <<a, b, c>>) :
        a \in Referring({"#/b", "#/c"}) \cup Scalars,
        b \in Referring({"#/c"}) \cup {Mapping(<<"type">>, <<Str("string")>>)},
        c \in Plain}

\* resolver.resolve(pointer)[-1]: the value of the document under the pointer
resolve(raw_spec, pointer) ==
    LET key == CASE pointer = "#/a" -> "a" [] pointer = "#/b" -> "b" [] OTHER -> "c"
        i == CHOOSE i \in 1..Len(raw_spec.keys) : raw_spec.keys[i] = key
    IN  raw_spec.items[i]

\* the test '"$ref" in v': key membership for a mapping, substring test for
\* a string, element membership for a list, tuple or set, TypeError for a
\* value that is not iterable
contains_ref(v) ==
    CASE v.kind = "dict" ->
            IF \E i \in 1..Len(v.keys) : v.keys[i] = "$ref" THEN "True" ELSE "False"
      [] v.kind = "str" -> IF v.text \in ContainingRef THEN "True" ELSE "False"
      [] v.kind \in {"list", "tuple", "set"} ->
            IF \E i \in 1..Len(v.items) : v.items[i] = Str("$ref")
            THEN "True" ELSE "False"
      [] OTHER -> "TypeError"

Resolved(value) == [exc |-> "", value |-> value]
Failed(exc) == [exc |-> exc, value |-> Null]

\* the first exception among the results, "" when there is none
FirstException(results) ==
    LET failing == {i \in 1..Len(results) : results[i].exc # ""} IN
    IF failing = {} THEN ""
    ELSE results[CHOOSE i \in failing : \A k \in failing : i <= k].exc

RECURSIVE deep_resolve(_, _)
RECURSIVE resolve_item(_, _)

\* v's part of the comprehensions of _deep_resolve_mapping and
\* _deep_resolve_sequence:
\* deep_resolve(resolver.resolve(v["$ref"])[-1] if "$ref" in v else v, resolver)
resolve_item(v, raw_spec) ==
    CASE contains_ref(v) = "TypeError" -> Failed("TypeError")
      [] contains_ref(v) = "False" -> deep_resolve(v, raw_spec)
      [] v.kind # "dict" -> Failed("TypeError")       \* v["$ref"] on a str, list, tuple, set
      [] OTHER ->
            LET i == CHOOSE i \in 1..Len(v.keys) : v.keys[i] = "$ref"
            IN  deep_resolve(resolve(raw_spec, v.items[i].text), raw_spec)

\* deep_resolve: dispatch on the type; a mapping or a container is rebuilt
\* from its resolved items, anything else is returned as it is
deep_resolve(unresolved, raw_spec) ==
    IF unresolved.kind \in {"dict", "list", "tuple", "set"}
    THEN LET results == [i \in 1..Len(unresolved.items) |->
                            resolve_item(unresolved.items[i], raw_spec)]
         IN  IF FirstException(results) # "" THEN Failed(FirstException(results))
             ELSE Resolved([unresolved EXCEPT
                              !.items = [i \in 1..Len(results) |-> results[i].value]])
    ELSE Resolved(unresolved)

\* resolve_references(raw_spec), raw_spec being the document
resolve_references ==
    /\ pc = "init"
    /\ LET r == deep_resolve(document, document) IN
         IF r.exc # ""
         THEN /\ outcome' = Raised(r.exc)
              /\ UNCHANGED retval
         ELSE /\ outcome' = Returned
              /\ retval' = r.value
    /\ pc' = "done"
    /\ UNCHANGED <<secVars, validation, message, channels, event_handler, emitted, call,
                   trace, document>>
    /\ UNCHANGED runVars

-----------------------------------------------------------------------------
(* Specifications *)

\* no application, and nothing of MockAsynctionSocketIO.run
NoScheduler == [state |-> "unstarted", i |-> 0]

InitNoRun ==
    /\ app = FALSE
    /\ subscription_tasks = <<>>
    /\ max_worker_number = 0
    /\ background = <<>>
    /\ queue = <<>>
    /\ runners = <<>>
    /\ scheduler = NoScheduler
    /\ sched_log = <<>>
    /\ executions = <<>>

InitAttempt ==
    /\ handlers = Unregistered
    /\ request = NoRequest
    /\ pc = "init"
    /\ stack = <<>>
    /\ idx = 1
    /\ kwargs = EmptyInfo
    /\ log = <<>>
    /\ outcome = Pending
    /\ message = NoMessage
    /\ channels = NoChannels
    /\ event_handler = <<>>
    /\ emitted = NotEmitted
    /\ call = NoCall
    /\ trace = <<>>
    /\ retval = NoneValue
    /\ document = NoDocument
    /\ InitNoRun

\* the security evaluator and the connect composition at rest
InitSecurityIdle ==
    /\ server_security = <<>>
    /\ custom_validator = FALSE
    /\ channel = Channel(FALSE, NoBindings, NoSecurity)
    /\ handlers = Unregistered
    /\ request = NoRequest
    /\ stack = <<>>
    /\ idx = 1
    /\ kwargs = EmptyInfo
    /\ log = <<>>
    /\ InitNoRun

\* The security evaluator: a connect handler wrapped by the security
\* decorator for any requirement list, no validation.
Init ==
    /\ validation = FALSE
    /\ server_security = <<>>
    /\ custom_validator \in BOOLEAN
    /\ \E rs \in ScopeSeqs : \E reqs \in ReqLists(MaxReqs, rs) :
          channel = Channel(TRUE, NoBindings, SomeSecurity(reqs))
    /\ InitAttempt

SecurityRequests == {q \in Requests : q.method = "GET"}

Next ==
    \/ register_namespace_handlers
    \/ connect_event(SecurityRequests)
    \/ security_handler
    \/ no_checks_passed
    \/ connect

Spec == Init /\ [][Next]_vars

\* The handler binder: registration of a channel's connect handler by the
\* server and the connection attempts to its namespace.
InitServer ==
    /\ validation \in BOOLEAN
    /\ server_security \in ServerSecurityChoices
    /\ custom_validator = FALSE
    /\ \E c \in BOOLEAN, b \in {NoBindings, GetBindings}, xs \in ChannelSecurityChoices :
          channel = Channel(c, b, xs)
    /\ InitAttempt

NextServer ==
    \/ register_namespace_handlers
    \/ connect_event(ServerRequests)
    \/ security_handler
    \/ no_checks_passed
    \/ handler_with_validation
    \/ connect
    \/ noop_handler

SpecServer == InitServer /\ [][NextServer]_vars

\* The publish side of the handler binder: the callable registered for a
\* publish message and the inbound events delivered to it.
InitPublish ==
    /\ validation \in BOOLEAN
    /\ message \in Messages
    /\ pc = "init"
    /\ outcome = Pending
    /\ InitSecurityIdle
    /\ channels = NoChannels
    /\ event_handler = <<>>
    /\ emitted = NotEmitted
    /\ call = NoCall
    /\ trace = <<>>
    /\ retval = NoneValue
    /\ document = NoDocument

NextPublish ==
    \/ register_handlers
    \/ publish_event

SpecPublish == InitPublish /\ [][NextPublish]_vars

\* The subscribe side: emit on a constructed server and the acks delivered
\* to the callbacks it handed to the transport.
InitEmit ==
    /\ validation \in BOOLEAN
    /\ message \in Messages
    /\ channels \in [Namespaces -> ChannelKinds]
    /\ pc = "idle"
    /\ outcome = Pending
    /\ InitSecurityIdle
    /\ event_handler = <<>>
    /\ emitted = NotEmitted
    /\ call = NoCall
    /\ trace = <<>>
    /\ retval = NoneValue
    /\ document = NoDocument

NextEmit ==
    \/ emit
    \/ callback_event

SpecEmit == InitEmit /\ [][NextEmit]_vars

\* Bindings validation: a connect handler wrapped by the bindings decorator
\* for any bindings, no security.
InitBindings ==
    /\ validation = TRUE
    /\ server_security = <<>>
    /\ custom_validator = FALSE
    /\ \E b \in BindingsChoices : channel = Channel(TRUE, b, NoSecurity)
    /\ InitAttempt

NextBindings ==
    \/ register_namespace_handlers
    \/ connect_event(BindingsRequests)
    \/ handler_with_validation
    \/ connect

SpecBindings == InitBindings /\ [][NextBindings]_vars

InitConstruction ==
    /\ validation = FALSE
    /\ pc = "init"
    /\ outcome = Pending
    /\ InitSecurityIdle
    /\ message = NoMessage
    /\ channels = NoChannels
    /\ event_handler = <<>>
    /\ emitted = NotEmitted
    /\ call = NoCall
    /\ trace = <<>>
    /\ retval = NoneValue

\* Construction of a Channel with any publish operation.
InitChannel ==
    /\ \E p \in PublishChoices : document = Document(<<>>, <<>>, NoSecurity, p)
    /\ InitConstruction

NextChannel == construct_channel

SpecChannel == InitChannel /\ [][NextChannel]_vars

\* Construction of an AsyncApiSpec: the requirement list reqs is the
\* server's, or the channel's next to no or a valid server-level list.
InitDocument ==
    /\ \E rs \in ScopeSeqs, flows \in FlowChoices, p \in DocumentPublishChoices :
       \E reqs \in RawReqLists(MaxReqs, rs) :
          document \in { Document(flows, reqs, NoSecurity, p),
                         Document(flows, <<>>, SomeSecurity(reqs), p),
                         Document(flows, <<<<Requirement("basic", <<>>)>>>>,
                                  SomeSecurity(reqs), p) }
    /\ InitConstruction

NextDocument == from_dict

SpecDocument == InitDocument /\ [][NextDocument]_vars

\* Construction of a SecurityScheme from any scheme object.
InitScheme ==
    /\ document \in SchemeData
    /\ InitConstruction

NextScheme == SecurityScheme_forge

SpecScheme == InitScheme /\ [][NextScheme]_vars

\* The mock server: registration of a channel's connect handler and the
\* connection attempts to its namespace.
NextMock ==
    \/ mock_register_handlers
    \/ connect_event(ServerRequests)
    \/ handler_with_validation
    \/ noop_handler

SpecMock == InitServer /\ [][NextMock]_vars

\* The mock server: the subscription tasks of a subscribe message and the
\* acks delivered to the callbacks they hand to the transport.
NextMockTasks ==
    \/ subscription_task
    \/ callback_event

SpecMockTasks == InitEmit /\ [][NextMockTasks]_vars

\* A server made with or without an application, and the events it emits.
InitApp ==
    /\ validation \in BOOLEAN
    /\ server_security \in {<<>>, <<Requirement("basic", <<>>)>>}
    /\ custom_validator = FALSE
    /\ \E c \in BOOLEAN : channel = Channel(c, NoBindings, NoSecurity)
    /\ message \in SubscribeMessages
    /\ channels \in [Namespaces -> ChannelKinds]
    /\ handlers = Unregistered
    /\ request = NoRequest
    /\ pc = "init"
    /\ stack = <<>>
    /\ idx = 1
    /\ kwargs = EmptyInfo
    /\ log = <<>>
    /\ outcome = Pending
    /\ event_handler = <<>>
    /\ emitted = NotEmitted
    /\ call = NoCall
    /\ trace = <<>>
    /\ retval = NoneValue
    /\ document = NoDocument
    /\ app \in BOOLEAN
    /\ subscription_tasks = <<>>
    /\ max_worker_number = 0
    /\ background = <<>>
    /\ queue = <<>>
    /\ runners = <<>>
    /\ scheduler = NoScheduler
    /\ sched_log = <<>>
    /\ executions = <<>>

NextApp ==
    \/ init_app
    \/ emit
    \/ callback_event

SpecApp == InitApp /\ [][NextApp]_vars

\* The mock server's run: the task runners and the task scheduler that it
\* starts, for any list of subscription tasks.
InitRun ==
    /\ validation \in BOOLEAN
    /\ subscription_tasks \in TaskLists
    /\ pc = "idle"
    /\ outcome = Pending
    /\ server_security = <<>>
    /\ custom_validator = FALSE
    /\ channel = Channel(FALSE, NoBindings, NoSecurity)
    /\ handlers = Unregistered
    /\ request = NoRequest
    /\ stack = <<>>
    /\ idx = 1
    /\ kwargs = EmptyInfo
    /\ log = <<>>
    /\ message = NoMessage
    /\ channels = NoChannels
    /\ event_handler = <<>>
    /\ emitted = NotEmitted
    /\ call = NoCall
    /\ trace = <<>>
    /\ retval = NoneValue
    /\ document = NoDocument
    /\ app = TRUE
    /\ max_worker_number = 0
    /\ background = <<>>
    /\ queue = <<>>
    /\ runners = <<>>
    /\ scheduler = NoScheduler
    /\ sched_log = <<>>
    /\ executions = <<>>

NextRun ==
    \/ run
    \/ task_scheduler_while
    \/ task_scheduler_put
    \/ task_scheduler_sleep
    \/ task_runner_get
    \/ task_runner_task

SpecRun == InitRun /\ [][NextRun]_vars

\* The same under fair scheduling of the threads: a runner that can take a
\* task or end the task it holds eventually does; so does the scheduler.
SpecRunFair ==
    /\ SpecRun
    /\ WF_vars(task_runner_get)
    /\ WF_vars(task_runner_task)
    /\ WF_vars(task_scheduler_while \/ task_scheduler_put \/ task_scheduler_sleep)

\* from_dict and to_dict of any document, with and without fields that the
\* typed model does not represent.
InitRoundTrip ==
    /\ \E flows \in FlowChoices, p \in DocumentPublishChoices,
          extensions \in SUBSET {"x-vendor"} :
       \E reqs \in RawReqLists(1, <<"read">>) :
          document \in { WithExtensions(Document(flows, reqs, NoSecurity, p), extensions),
                         WithExtensions(Document(flows, <<>>, SomeSecurity(reqs), p),
                                        extensions) }
    /\ InitConstruction

NextRoundTrip ==
    \/ from_dict
    \/ construct_spec
    \/ spec_to_dict

SpecRoundTrip == InitRoundTrip /\ [][NextRoundTrip]_vars

\* Resolution of the references of any acyclic raw document.
InitResolve ==
    /\ document \in RawSpecs
    /\ InitConstruction

NextResolve == resolve_references

SpecResolve == InitResolve /\ [][NextResolve]_vars

TypeOK ==
    /\ validation \in BOOLEAN
    /\ pc \in {"init", "idle", "done", "failed", "built", "dumped", "dumped_built",
               "running",
               "handler_with_security",
               "handler_with_validation", "connect", "noop_handler"}
    /\ idx \in 1..(Len(handlers.security_checks) + 1)
    /\ outcome.tag \in {"pending", "returned", "raised"}

-----------------------------------------------------------------------------
(* Properties of the security evaluator (specification Spec) *)

\* a scheme type for which a security check exists
Supported(requirement) ==
    security_schemes(requirement.name).type \in {"http", "oauth2", "httpApiKey"}

\* the declared requirements of the channel that have a check, in declaration order
DeclaredChecks == SelectSeq(channel.x_security.reqs, Supported)

IsCheck(j) == j \in 1..Len(log) /\ log[j].ev = "check"

\* the check of event e returned non-empty claims
Winning(e) == e.ev = "check" /\ e.tag = "value" /\ Truthy(e.ret)

UserHandlerCalls == {j \in 1..Len(log) : log[j].ev = "connect"}

\* C1: the checks run in the order their requirements are declared; the first
\* check that returns non-empty claims ends the evaluation with its claims, and
\* no later check (hence no later info handler) is invoked.
C1_ChecksInDeclaredOrderFirstWins ==
    \A j \in 1..Len(log) : log[j].ev = "check" =>
        /\ log[j].i = j
        /\ j <= Len(DeclaredChecks)
        /\ log[j].name = DeclaredChecks[j].name
        /\ \A k \in 1..(j - 1) : log[k].ev = "check" /\ ~Winning(log[k])
        /\ Winning(log[j]) =>
              /\ kwargs = log[j].ret
              /\ pc # "handler_with_security"
              /\ outcome.tag # "raised"

\* [B, A] with B succeeding: the attempt is over and A's check never ran
C1_Witness ==
    /\ Len(DeclaredChecks) = 2
    /\ DeclaredChecks[1].name # DeclaredChecks[2].name
    /\ pc = "done"
    /\ Len(log) = 2
    /\ Winning(log[1])
    /\ log[2].ev = "connect"

\* the check of a requirement does not apply to the request: no Authorization
\* header, an Authorization scheme the check does not handle, or no API key
HandledAuthType(requirement) ==
    IF builder(requirement) = "http_security_check" THEN "basic" ELSE "bearer"

Inapplicable(requirement, req) ==
    IF builder(requirement) = "http_api_key_security_check"
    THEN ~req.api_key.present
    ELSE \/ ~req.authorization.present
         \/ /\ Len(req.authorization.words) = 2
            /\ Lower(req.authorization.words[1]) # HandledAuthType(requirement)

\* C2: a check that is not applicable does not end the evaluation, the next
\* requirement is tried; when no requirement is left a SecurityException is raised.
C2_InapplicableMovesOn ==
    \A j \in 1..Len(log) :
        (log[j].ev = "check" /\ Inapplicable(handlers.security_checks[j], request)) =>
            /\ log[j].tag = "none"
            /\ ~log[j].called
            /\ pc = "done" =>
                  \/ Len(log) > j
                  \/ j = Len(handlers.security_checks)
                       /\ outcome = Raised("SecurityException")

ReadsAuthorization(requirement) ==
    builder(requirement) # "http_api_key_security_check"

MalformedHeader(requirement, req) ==
    /\ ReadsAuthorization(requirement)
    /\ req.authorization.present
    /\ Len(req.authorization.words) = 1

DecodeFailure(requirement, req) ==
    /\ builder(requirement) = "http_security_check"
    /\ req.authorization.present
    /\ Len(req.authorization.words) = 2
    /\ Lower(req.authorization.words[1]) = "basic"
    /\ req.authorization.words[2] \in {"dXA=", "dTp"}

InfoReturnedNone(e) == e.called /\ e.ret.is_none

Contains(required, token) ==
    \A k \in 1..Len(required) : \E m \in 1..Len(token) : token[m] = required[k]

ScopeCheckFailed(requirement, e) ==
    /\ e.scoped
    /\ IF custom_validator THEN ~e.v
       ELSE ~Contains(requirement.scopes, token_scopes_of(e.ret))

EndsInSecurityFailure(j) ==
    /\ log[j].tag \in {"raise", "err"}
    /\ Len(log) = j
    /\ pc = "done"
    /\ outcome = Raised("SecurityException")

\* C3: every hard error of a check that ran (header without a credential
\* part, decode failure, info function returning None, scope check failure)
\* ends the evaluation with a SecurityException: no claims are returned and
\* no later requirement is tried.
C3_HardErrorRaises ==
    \A j \in 1..Len(log) : log[j].ev = "check" =>
        LET requirement == handlers.security_checks[j] IN
        (\/ MalformedHeader(requirement, request)
         \/ DecodeFailure(requirement, request)
         \/ InfoReturnedNone(log[j])
         \/ ScopeCheckFailed(requirement, log[j])) => EndsInSecurityFailure(j)

\* [basic, oauth2], valid basic credentials that basic-info rejects: the
\* evaluation ended at the first check
C3_Witness ==
    /\ Len(handlers.security_checks) = 2
    /\ builder(handlers.security_checks[1]) = "http_security_check"
    /\ builder(handlers.security_checks[2]) = "oauth2_security_check"
    /\ Len(log) = 1
    /\ InfoReturnedNone(log[1])
    /\ outcome = Raised("SecurityException")

\* C4 as claimed: after the basic-info handler returned an empty result the
\* remaining requirements are still tried.
BasicInfoEmpty(j) ==
    /\ IsCheck(j)
    /\ builder(handlers.security_checks[j]) = "http_security_check"
    /\ log[j].called
    /\ ~Truthy(log[j].ret)

C4_BasicInfoEmptyMovesOn_Original ==
    \A j \in 1..Len(log) :
        (BasicInfoEmpty(j) /\ j < Len(handlers.security_checks) /\ pc = "done")
            => Len(log) > j /\ IsCheck(j + 1)

\* C4 (amended): when the basic-info handler returns None the check raises a
\* SecurityException that ends the evaluation, no remaining requirement is
\* tried; only when it returns an empty mapping that passes scope validation
\* is the next requirement tried.
C4_BasicInfoNoneIsTerminal ==
    \A j \in 1..Len(log) : BasicInfoEmpty(j) =>
        IF log[j].ret.is_none
        THEN EndsInSecurityFailure(j)
        ELSE (~ScopeCheckFailed(handlers.security_checks[j], log[j])) =>
                /\ log[j].tag = "value"
                /\ pc = "done" =>
                      \/ Len(log) > j /\ IsCheck(j + 1)
                      \/ j = Len(handlers.security_checks)
                           /\ outcome = Raised("SecurityException")

\* [basic, bearer] and a Basic header: basic-info returned None, the bearer
\* requirement was never tried
C4_Witness ==
    /\ Len(handlers.security_checks) = 2
    /\ BasicInfoEmpty(1)
    /\ log[1].ret.is_none
    /\ pc = "done"
    /\ Len(log) = 1

\* C5: an oauth2 check whose token-info returned claims passes iff every
\* required scope occurs among the claims' scopes (whatever their order and
\* repetition), unless a custom scope validator is configured; a missing scope
\* is a SecurityException and the connect handler is not invoked.
C5_OAuth2ScopesContained ==
    \A j \in 1..Len(log) :
        (/\ log[j].ev = "check"
         /\ builder(handlers.security_checks[j]) = "oauth2_security_check"
         /\ log[j].called
         /\ ~log[j].ret.is_none
         /\ ~custom_validator) =>
            LET required == handlers.security_checks[j].scopes
                token == token_scopes_of(log[j].ret)
            IN  IF Contains(required, token)
                THEN log[j].tag = "value"
                ELSE /\ EndsInSecurityFailure(j)
                     /\ UserHandlerCalls = {}

\* token-info returned claims with scopes, but a required scope is missing
C5_Witness ==
    /\ ~custom_validator
    /\ Len(log) >= 1
    /\ IsCheck(Len(log))
    /\ builder(handlers.security_checks[Len(log)]) = "oauth2_security_check"
    /\ log[Len(log)].called
    /\ Truthy(log[Len(log)].ret)
    /\ log[Len(log)].ret.scopes # <<>>
    /\ outcome = Raised("SecurityException")

-----------------------------------------------------------------------------
(* Properties of the handler binder (specification SpecServer) *)

HasSecurityStage ==
    \E k \in 1..Len(handlers.stages) : handlers.stages[k] = "handler_with_security"

\* security requirements apply to the namespace
SecurityRequired ==
    \/ ~channel.x_security.is_none /\ channel.x_security.reqs # <<>>
    \/ channel.x_security.is_none /\ server_security # <<>>

IsStageEvent(e) == e.ev \in {"bindings", "connect", "noop"}

\* registration has completed and the server serves connections
Serving == pc \notin {"init", "failed"}

\* C6: the requirements enforced on connect are the channel's x_security when
\* it is present, even when empty, and the server's security otherwise, never
\* a merge of the two; with x_security = [] no security check runs and the
\* connection is not refused on security grounds.
C6_ChannelSecurityReplacesServerSecurity ==
    Serving =>
        /\ ~channel.x_security.is_none =>
              /\ handlers.security_checks = SelectSeq(channel.x_security.reqs, Supported)
              /\ HasSecurityStage <=> channel.x_security.reqs # <<>>
        /\ channel.x_security.is_none =>
              /\ handlers.security_checks = SelectSeq(server_security, Supported)
              /\ HasSecurityStage <=> server_security # <<>>
        /\ (~channel.x_security.is_none /\ channel.x_security.reqs = <<>>) =>
              /\ \A j \in 1..Len(log) : log[j].ev # "check"
              /\ pc = "done" =>
                    \/ outcome = Returned
                    \/ outcome = Raised("BindingsValidationException")

\* x_security = [] under a server that declares requirements: a request
\* without credentials was admitted
C6_Witness ==
    /\ ~channel.x_security.is_none
    /\ channel.x_security.reqs = <<>>
    /\ server_security # <<>>
    /\ ~request.authorization.present
    /\ ~request.api_key.present
    /\ pc = "done"
    /\ outcome = Returned

\* C7: when security requirements apply, bindings validation and the user's
\* (or the no-op) handler run only after a security check has succeeded; a
\* connection attempt that fails security reaches neither.
C7_SecurityIsOutermost ==
    SecurityRequired =>
        /\ \A j \in 1..Len(log) : IsStageEvent(log[j]) =>
              \E k \in 1..(j - 1) : Winning(log[k])
        /\ outcome = Raised("SecurityException") =>
              \A j \in 1..Len(log) : ~IsStageEvent(log[j])

\* validation enabled, a connect handler and bindings declared, a request
\* that the bindings would reject: the security check ran first and failed,
\* and neither bindings validation nor the user's handler was reached
C7_Witness ==
    /\ validation
    /\ channel.connect
    /\ ~channel.bindings.is_none
    /\ request.method # channel.bindings.method
    /\ pc = "done"
    /\ log # <<>>
    /\ \A j \in 1..Len(log) : log[j].ev = "check"
    /\ outcome = Raised("SecurityException")

\* C8: on a server that serves connections, a channel without a connect
\* handler to which security requirements apply has a connect handler
\* registered, the no-op handler wrapped with the security check, and every
\* connection attempt runs the security check.
C8_NoopHandlerRegisteredWithSecurity ==
    (Serving /\ ~channel.connect /\ SecurityRequired) =>
        /\ handlers.registered
        /\ handlers.stages = <<"handler_with_security", "noop_handler">>
        /\ \A j \in 1..Len(log) : log[j].ev = "noop" =>
              \E k \in 1..(j - 1) : Winning(log[k])
        /\ pc = "done" =>
              \/ log # <<>> /\ log[1].ev = "check"
              \/ handlers.security_checks = <<>> /\ outcome = Raised("SecurityException")

\* no connect handler declared: the security check succeeded, then the no-op ran
C8_Witness ==
    /\ ~channel.connect
    /\ SecurityRequired
    /\ pc = "done"
    /\ Len(log) = 2
    /\ Winning(log[1])
    /\ log[2].ev = "noop"
    /\ outcome = Returned

\* C9: when the security check succeeds the user's connect handler is invoked
\* exactly once with the winning check's claims as keyword arguments, also
\* with bindings validation in between.
C9_ClaimsReachUserHandler ==
    (pc = "done" /\ channel.connect /\ \E k \in 1..Len(log) : Winning(log[k])) =>
        \E j \in UserHandlerCalls :
            /\ UserHandlerCalls = {j}
            /\ \E k \in 1..(j - 1) : Winning(log[k]) /\ log[j].kw = log[k].ret

\* C10: every security failure surfaces from the security-wrapped connect
\* handler as a ConnectionRefusedError.
C10_SecurityFailureRefusesConnection ==
    (outcome.tag = "raised" /\ "SecurityException" \in Bases(outcome.exc)) =>
        "ConnectionRefusedError" \in Bases(outcome.exc)

-----------------------------------------------------------------------------
(* Claims about the validation pipeline: specification SpecPublish *)

CallsOf(fn) == {i \in 1..Len(trace) : trace[i].fn = fn}

C12_PublishWrapperOrder ==
    (pc = "done" /\ call.op = "publish") =>
        IF validation
        THEN /\ event_handler = <<"handler_with_validation", "handler">>
             /\ CallsOf("validate_payload") = {1}
             /\ CallsOf("handler") \subseteq {2}
             /\ CallsOf("jsonschema_validate_ack") \subseteq {3}
             /\ CallsOf("jsonschema_validate_ack") # {} => CallsOf("handler") = {2}
             /\ trace[1].result # "ok" => CallsOf("handler") = {}
             /\ trace[1].result = "ok" => CallsOf("handler") = {2}
        ELSE /\ event_handler = <<"handler">>
             /\ trace = <<Call("handler", call.tuple, "ok")>>

C12_Witness ==
    /\ pc = "done"
    /\ call.op = "publish"
    /\ validation
    /\ Len(trace) = 3
    /\ trace[1] = Call("validate_payload", call.tuple, "ok")
    /\ trace[2] = Call("handler", call.tuple, "ok")
    /\ trace[3].fn = "jsonschema_validate_ack"

\* C13: the publish wrapper validates what the handler returned against the
\* ack schema only if the handler returned a value and the message declares
\* x-ack; a handler that returns None never ends in a
\* MessageAckValidationException; the wrapper returns what the handler
\* returned.
C13_AckValidatedOnlyForReturnedValue ==
    (pc = "done" /\ call.op = "publish" /\ validation) =>
        /\ \A i \in CallsOf("jsonschema_validate_ack") :
              /\ call.ret # NoneValue
              /\ ~message.x_ack.is_none
              /\ trace[i].arg = call.ret
        /\ call.ret = NoneValue => outcome # Raised("MessageAckValidationException")
        /\ outcome = Returned => retval = call.ret

\* x-ack is declared, the handler is called and returns None: no ack validation
C13_Witness ==
    /\ pc = "done"
    /\ call.op = "publish"
    /\ validation
    /\ ~message.x_ack.is_none
    /\ call.ret = NoneValue
    /\ CallsOf("handler") = {2}
    /\ CallsOf("jsonschema_validate_ack") = {}
    /\ outcome = Returned
    /\ retval = NoneValue

-----------------------------------------------------------------------------
(* Claims about emit: specification SpecEmit *)

TargetNamespace == IF call.namespace = "" THEN "/" ELSE call.namespace

SuppliedCallback == IF call.callback THEN "callback" ELSE "none"

\* C14: with validation enabled emit calls the transport's emit only if the
\* target namespace (default "/") is a channel of the spec, the channel has
\* a subscribe operation, the operation has a message named like the event
\* and the payload passes validate_payload; otherwise it raises a
\* ValidationException and does not call the transport's emit. With
\* validation disabled every emit reaches the transport unchanged.
C14_EmitValidatesBeforeTransport ==
    call.op = "emit" =>
        IF validation
        THEN /\ emitted.called =>
                  /\ channels[TargetNamespace] = "subscribe"
                  /\ call.event = message.name
                  /\ call.args # <<>>
                  /\ validate_payload(payload_args(call.args), message.payload) = "ok"
             /\ ~emitted.called =>
                  /\ outcome.tag = "raised"
                  /\ "ValidationException" \in Bases(outcome.exc)
        ELSE emitted = Emitted(call.event, call.args, call.namespace, SuppliedCallback)

\* jsonschema rejects the arguments of the ack, or they are too many
AckRejected(args, x_ack) ==
    IF x_ack.is_none THEN args.items # <<>>
    ELSE IF x_ack.args.type = "array" THEN args \notin x_ack.args.accepts
    ELSE \/ Len(args.items) > 1
         \/ Len(args.items) = 1 /\ Atom(args.items[1]) \notin x_ack.args.accepts

WrappedCallbackValidatesFirst ==
    (call.op = "callback" /\ emitted.callback = "callback_with_validation") =>
        /\ CallsOf("validate_ack_args") = {1}
        /\ trace[1].arg = call.tuple
        /\ CallsOf("callback") \subseteq {2}
        /\ CallsOf("callback") # {} => trace[1].result = "ok"
        /\ AckRejected(call.tuple, message.x_ack) =>
              /\ outcome = Raised("MessageAckValidationException")
              /\ CallsOf("callback") = {}

C18_ValidationFailuresAreValidationExceptions ==
    (call.op \in {"emit", "callback"} /\ outcome.tag = "raised") =>
        "ValidationException" \in Bases(outcome.exc)

-----------------------------------------------------------------------------
(* Claims about bindings validation: specification SpecBindings *)

BindingsStageRan == \E i \in 1..Len(log) : log[i].ev = "bindings"

BindingsViolated(req, bindings) ==
    \/ bindings.method # "" /\ req.method # bindings.method
    \/ ~bindings.headers.is_none /\ lower_keys(req.headers) \notin bindings.headers.accepts
    \/ ~bindings.query.is_none /\ to_dict(req.args) \notin bindings.query.accepts

\* C16: validate_request_bindings passes without bindings; with bindings it
\* raises BindingsValidationException if and only if the method is set and
\* is not the request's method, or the headers schema is set and rejects
\* the request's headers with lower-cased names, or the query schema is set
\* and rejects the flat map of the query parameters; it raises nothing else.
C16_BindingsRaiseIff ==
    BindingsStageRan =>
        IF ~channel.bindings.is_none /\ BindingsViolated(request, channel.bindings)
        THEN /\ outcome = Raised("BindingsValidationException")
             /\ \A i \in 1..Len(log) : log[i].ev # "connect"
        ELSE outcome.tag # "raised"

\* the header sent as "Foo" satisfies the headers schema, the first value of
\* the query parameter is rejected although its second value is accepted
C16_Witness ==
    /\ pc = "done"
    /\ ~channel.bindings.is_none
    /\ channel.bindings.method = request.method
    /\ channel.bindings.headers = JSONSchema("object", {{"foo"}})
    /\ request.headers = {"Foo"}
    /\ channel.bindings.query = JSONSchema("object", {<<"baz">>})
    /\ request.args = <<"qux", "baz">>
    /\ BindingsStageRan
    /\ outcome = Raised("BindingsValidationException")

-----------------------------------------------------------------------------
(* Claims about the connect composition, continued: specification SpecServer *)

\* C17: with validation enabled a connection to a namespace whose channel
\* declares bindings is accepted only after the request was validated
\* against the bindings, whether or not the channel declares a connect
\* handler.
C17_BindingsValidatedOnEveryConnection ==
    (validation /\ ~channel.bindings.is_none /\ pc = "done" /\ outcome = Returned) =>
        /\ BindingsStageRan
        /\ validate_request_bindings(request, channel.bindings) = "ok"

-----------------------------------------------------------------------------
(* Claims about construction: specifications SpecChannel and SpecDocument *)

\* C19: constructing a Channel whose publish operation has a message without
\* x-handler, at any position of the message list, fails with ValueError.
C19_PublishWithoutHandlerFailsConstruction ==
    (/\ pc = "done"
     /\ ~document.publish.is_none
     /\ \E i \in 1..Len(document.publish.oneOf) : document.publish.oneOf[i].x_handler = "")
        => outcome = Raised("ValueError")

\* only the last of three messages has no handler
C19_Witness ==
    /\ pc = "done"
    /\ Len(document.publish.oneOf) = 3
    /\ document.publish.oneOf[1].x_handler # ""
    /\ document.publish.oneOf[2].x_handler # ""
    /\ document.publish.oneOf[3].x_handler = ""
    /\ outcome = Raised("ValueError")

DefinedScopes(flows) == UNION {ToSet(flows[i]) : i \in 1..Len(flows)}

BadRequirement(requirement, flows) ==
    \/ Len(requirement) > 1
    \/ requirement[1].name \notin ComponentNames
    \/ /\ requirement[1].scopes # <<>>
       /\ security_schemes(requirement[1].name).type \notin {"oauth2", "openIdConnect"}
    \/ /\ security_schemes(requirement[1].name).type = "oauth2"
       /\ ToSet(requirement[1].scopes) \ DefinedScopes(flows) # {}

AnyBad(reqs, flows) == \E i \in 1..Len(reqs) : BadRequirement(reqs[i], flows)

\* C20: construction of an AsyncApiSpec fails when a security requirement of
\* the server or of a channel's x-security has more than one key, names a
\* scheme that components.securitySchemes does not have, lists scopes for a
\* scheme that is neither oauth2 nor openIdConnect, or lists for an oauth2
\* scheme a scope that none of its flows defines.
C20_BadRequirementFailsConstruction ==
    (/\ pc = "done"
     /\ \/ AnyBad(document.security, document.flows)
        \/ ~document.x_security.is_none /\ AnyBad(document.x_security.reqs, document.flows))
        => outcome = Raised("ValueError")

\* a valid server-level list, valid messages, and a channel whose second
\* requirement lists a scope that the only flow does not define
C20_Witness ==
    /\ pc = "done"
    /\ document.publish = NoOperation
    /\ document.flows = <<<<"read">>>>
    /\ document.security = <<<<Requirement("basic", <<>>)>>>>
    /\ ~document.x_security.is_none
    /\ Len(document.x_security.reqs) = 2
    /\ document.x_security.reqs[1] = <<Requirement("basic", <<>>)>>
    /\ document.x_security.reqs[2] = <<Requirement("oauth2", <<"write">>)>>
    /\ outcome = Raised("ValueError")

-----------------------------------------------------------------------------
(* Resolution of handler references (specification Spec) *)

\* the handler references that the check of a requirement calls
HandlerRefs(requirement) ==
    LET scheme == security_schemes(requirement.name)
        info == CASE scheme.type = "oauth2" -> scheme.x_token_info_func
                  [] scheme.type = "http" /\ scheme.scheme = "basic" ->
                        scheme.x_basic_info_func
                  [] OTHER -> scheme.x_api_key_info_func
    IN  {info} \cup (IF custom_validator THEN {"handlers.validate_scopes"} ELSE {})

\* C25: every handler reference is resolved during registration, before any
\* connection is served: on a serving server the references of the user's
\* connect handler and of every check have been loaded, and no check calls
\* load_handler while a connection attempt is handled.
C25_HandlersResolvedAtRegistration ==
    /\ (Serving /\ handlers.registered) =>
          /\ channel.connect => "handlers.connect" \in handlers.loaded
          /\ \A i \in 1..Len(handlers.security_checks) :
                HandlerRefs(handlers.security_checks[i]) \subseteq handlers.loaded
    /\ \A j \in 1..Len(log) : ~log[j].loaded

\* C26: for a request whose Authorization auth type is not 'basic'
\* (case-insensitive), known scheme or not, the http/basic check is not
\* applicable: it raises nothing, does not call the basic-info handler, and
\* the evaluation goes on with the next requirement.
C26_NonBasicAuthTypeNotApplicable ==
    \A j \in 1..Len(log) :
        (/\ log[j].ev = "check"
         /\ builder(handlers.security_checks[j]) = "http_security_check"
         /\ request.authorization.present
         /\ Len(request.authorization.words) = 2
         /\ Lower(request.authorization.words[1]) # "basic") =>
            /\ log[j].tag = "none"
            /\ ~log[j].called
            /\ outcome.exc # "ValueError"

-----------------------------------------------------------------------------
(* Building the checks of the http/bearer and httpApiKey schemes
   (specification SpecServer) *)

EnforcedSecurity == effective_security(channel.x_security, server_security)

Enforces(name) ==
    \E i \in 1..Len(EnforcedSecurity) : EnforcedSecurity[i].name = name

\* C27: for an http/bearer scheme that declares x-bearerInfoFunc, building the
\* check succeeds, and the check applies only to requests whose auth type is
\* 'bearer' (case-insensitive), for which it calls the info handler.
C27_BearerInfoFuncCheckBuilds ==
    (pc # "init" /\ EnforcedSecurity = <<Requirement("bearerInfo", <<>>)>>) =>
        /\ pc # "failed"
        /\ handlers.security_checks = EnforcedSecurity
        /\ \A j \in 1..Len(log) : log[j].ev = "check" =>
              (log[j].called <=>
                  /\ request.authorization.present
                  /\ Len(request.authorization.words) = 2
                  /\ Lower(request.authorization.words[1]) = "bearer")

\* C28: for an httpApiKey scheme with a location among query, header and
\* cookie, a name and an api-key-info handler, building the check succeeds;
\* the check is not applicable when the key is absent from the configured
\* location and calls the handler with the key otherwise.
C28_ApiKeyCheckBuilds ==
    (pc # "init" /\ Enforces("apiKey") /\ ~Enforces("stale")) =>
        /\ pc # "failed"
        /\ \A j \in 1..Len(log) :
              (log[j].ev = "check" /\ log[j].name = "apiKey") =>
                 /\ log[j].called <=> request.api_key.present
                 /\ ~request.api_key.present => log[j].tag = "none"

-----------------------------------------------------------------------------
(* Construction of a SecurityScheme (specification SpecScheme) *)

Constructed == pc = "done"

SchemeMissing == document.type = "http" /\ document.scheme = ""

ApiKeyIncomplete ==
    /\ document.type = "httpApiKey"
    /\ document.name = "" \/ document.in_ \notin {"query", "header", "cookie"}

OAuthType == document.type \in {"oauth2", "openIdConnect"}

\* C21 as claimed: construction fails for http without scheme, for httpApiKey
\* without name or with a location outside query/header/cookie, and for
\* oauth2 / openIdConnect unless at least one flow is declared.
C21_SchemeConstructionFails_Original ==
    (/\ Constructed
     /\ \/ SchemeMissing
        \/ ApiKeyIncomplete
        \/ OAuthType /\ (document.flows.is_none \/ document.flows.declared = <<>>)) =>
        outcome = Raised("ValueError")

\* C21 (amended): construction fails for http without scheme, for httpApiKey
\* without name or with a location outside query/header/cookie, and for
\* oauth2 / openIdConnect without a flows object; a flows object that
\* declares no flow is accepted.
C21_SchemeConstructionFails ==
    /\ (/\ Constructed
        /\ \/ SchemeMissing
           \/ ApiKeyIncomplete
           \/ OAuthType /\ document.flows.is_none) => outcome = Raised("ValueError")
    /\ (Constructed /\ OAuthType /\ document.flows = OAuth2Flows(<<>>)) =>
          outcome = Returned

\* an oauth2 scheme without a flows object was rejected
C21_Witness ==
    /\ Constructed
    /\ document.type = "oauth2"
    /\ document.flows.is_none
    /\ outcome = Raised("ValueError")

-----------------------------------------------------------------------------
(* The schema resolver (specification SpecResolve) *)

IsReference(v) == v.kind = "dict" /\ \E i \in 1..Len(v.keys) : v.keys[i] = "$ref"

\* a reference object occurs in v, at any depth
RECURSIVE HasReference(_)
HasReference(v) ==
    \/ IsReference(v)
    \/ \E i \in 1..Len(v.items) : HasReference(v.items[i])

\* v with every reference object replaced by its fully resolved target
RECURSIVE Target(_, _)
Target(v, raw_spec) ==
    IF IsReference(v) THEN Target(resolve(raw_spec, v.items[1].text), raw_spec)
    ELSE [v EXCEPT !.items = [i \in 1..Len(v.items) |-> Target(v.items[i], raw_spec)]]

\* C22: the output of resolve_references for an acyclic document contains no
\* reference object at any depth: every reference is replaced by its target
\* from the original document, itself fully resolved, also when the target
\* is a reference object.
C22_NoReferenceLeft ==
    (pc = "done" /\ outcome = Returned) =>
        /\ ~HasReference(retval)
        /\ retval = Target(document, document)

\* C23: on a document without reference objects resolve_references
\* completes without error and returns every value unchanged: strings
\* whatever their content, numbers, booleans, null, nested mappings, and
\* lists, tuples and sets with their container type.
C23_PlainValuesUnchanged ==
    (pc = "done" /\ ~HasReference(document)) =>
        /\ outcome = Returned
        /\ retval = document

-----------------------------------------------------------------------------
(* The round trip of a document through the typed model
   (specification SpecRoundTrip) *)

\* C24: for any valid document d, from_dict(d).to_dict() = d, the fields that
\* the typed model does not represent included: to_dict returns the input
\* of from_dict and not a serialisation of the typed model.
C24_RoundTrip ==
    pc = "dumped" => retval = document

\* a document with a vendor extension went through from_dict and to_dict
C24_Witness ==
    /\ pc = "dumped"
    /\ document.extensions # {}
    /\ retval = document
    /\ retval # asdict(AsyncApiSpec(forge(document), TRUE, document))

-----------------------------------------------------------------------------
(* The mock server (specifications SpecMockTasks and SpecMock) *)

\* C29: with validation enabled, every event that a subscription task of the
\* mock server emits passes the outbound validation of emit and reaches the
\* transport, whatever the subscribe message, also one without payload.
C29_TaskEmissionsPassValidation ==
    (validation /\ pc = "done" /\ call.op = "emit") =>
        /\ outcome = Returned
        /\ emitted.called

\* what security_handler does with a request from the k-th check on: the
\* exceptions it can raise, and "" when a check can admit the request
RECURSIVE security_verdicts(_, _, _, _)
security_verdicts(checks, k, req, custom) ==
    IF k > Len(checks) THEN {"SecurityException"}
    ELSE UNION {LET c == run_check(checks[k], req, custom, r, v) IN
                CASE c.tag = "raise" -> {c.exc}
                  [] c.tag = "err" -> {"SecurityException"}
                  [] c.tag = "value" /\ Truthy(c.info) -> {""}
                  [] OTHER -> security_verdicts(checks, k + 1, req, custom)
                : r \in InfoResults(checks[k].name), v \in BOOLEAN}

\* what AsynctionSocketIO does on security grounds with the attempt under way
AsynctionSocketIO_verdicts ==
    IF SecurityRequired
    THEN security_verdicts(build_security_handler(EnforcedSecurity), 1, request,
                           custom_validator)
    ELSE {""}

\* the attempt was refused before any stage behind the security stage ran
RefusedOnSecurityGrounds ==
    /\ outcome.tag = "raised"
    /\ \A k \in 1..Len(log) : log[k].ev = "check"

\* C30: the mock server enforces on connection attempts the security
\* requirements that the real server enforces: an attempt that the server
\* made from the document serves is refused on security grounds only as
\* AsynctionSocketIO can refuse it, and is admitted only if AsynctionSocketIO
\* can admit it.
C30_MockEnforcesSecurity ==
    (pc = "done" /\ handlers.registered /\ build_failure(EnforcedSecurity) = "") =>
        IF RefusedOnSecurityGrounds
        THEN outcome.exc \in AsynctionSocketIO_verdicts
        ELSE "" \in AsynctionSocketIO_verdicts

\* C31: a run of a subscription task makes one call of emit: the event is
\* the message's name, the namespace is that of a channel with the subscribe
\* operation, the only positional argument is a value of the message's
\* payload schema (None, the value of the null schema, when the message has
\* no payload), and a callback is passed exactly when the message has an ack.
C31_TaskEmitsOnce ==
    (pc = "done" /\ call.op = "emit") =>
        /\ call.event = message.name
        /\ call.namespace \in Namespaces
        /\ channels[call.namespace] = "subscribe"
        /\ Len(call.args) = 1
        /\ IF message.payload.is_none
           THEN call.args[1] = NoneValue
           ELSE call.args[1] \in message.payload.accepts /\ call.args[1].kind = "atom"
        /\ call.callback = ~message.x_ack.is_none

C31_Witness ==
    /\ pc = "done"
    /\ call.op = "emit"
    /\ ~message.payload.is_none
    /\ message.x_ack.is_none
    /\ call.args[1] \in message.payload.accepts
    /\ ~call.callback
    /\ emitted.called

-----------------------------------------------------------------------------
(* Scopes of oauth2 requirements (specification SpecDocument) *)

\* C37: construction of an AsyncApiSpec accepts a document whose messages
\* are valid and whose security requirements are all well formed, the scopes
\* of each oauth2 requirement being declared in the scheme's flows, whatever
\* the number, the order or the repetition of the scopes listed.
C37_DeclaredScopesAccepted ==
    (/\ pc = "done"
     /\ Channel_post_init(document.publish) = "ok"
     /\ ~AnyBad(document.security, document.flows)
     /\ document.x_security.is_none \/ ~AnyBad(document.x_security.reqs, document.flows))
        => outcome = Returned

-----------------------------------------------------------------------------
(* Registration of the connect handler (specification SpecServer) *)

\* C36: once the handlers of a channel are registered, its namespace has a
\* connect handler, and for a channel that declares no connect handler the
\* handler registered is the no-op handler, wrapped or not.
C36_ConnectHandlerAlwaysRegistered ==
    Serving =>
        /\ handlers.registered
        /\ handlers.stages # <<>>
        /\ ~channel.connect => handlers.stages[Len(handlers.stages)] = "noop_handler"

-----------------------------------------------------------------------------
(* The mock server's background tasks (specification SpecRun) *)

\* C32: run starts as many task runners as the smaller of max_worker_number
\* and the number of subscription tasks, then one task scheduler, all on the
\* one queue, and then calls the run of the underlying server.
C32_RunStartsWorkersAndScheduler ==
    pc = "running" =>
        LET n == Len(runners) IN
        /\ n <= max_worker_number
        /\ n <= Len(subscription_tasks)
        /\ n = max_worker_number \/ n = Len(subscription_tasks)
        /\ Len(background) = n + 2
        /\ \A k \in 1..n : background[k] = "task_runner"
        /\ background[n + 1] = "task_scheduler"
        /\ background[n + 2] = "SocketIO.run"
        /\ scheduler.state # "unstarted"

C32_Witness ==
    /\ pc = "running"
    /\ Len(subscription_tasks) = 2
    /\ max_worker_number = 1
    /\ Len(runners) = 1
    /\ background = <<"task_runner", "task_scheduler", "SocketIO.run">>

\* the puts of the scheduler, in order
IsPut(e) == e.ev = "put"
Puts == SelectSeq(sched_log, IsPut)

\* the items enqueued so far that are still in the queue or held by a runner
Items ==
    ToSet(queue) \cup {runners[w].item : w \in {v \in 1..Len(runners) : runners[v].state = "task"}}

\* C33: the scheduler enqueues the subscription tasks in declaration order,
\* cyclically: the sequence of the tasks put on the queue is the task list
\* repeated, so that every pass over the list puts each task once.
C33_EnqueuedInDeclarationOrder ==
    LET n == Len(subscription_tasks) IN
    /\ \A k \in 1..Len(Puts) : Puts[k].i = ((k - 1) % n) + 1
    /\ Len(executions) = Len(Puts)
    /\ \A item \in Items :
          item.task = subscription_tasks[((item.serial - 1) % n) + 1]

\* two different tasks, the first of them enqueued for the second time
C33_Witness ==
    /\ Len(subscription_tasks) = 2
    /\ subscription_tasks[1] # subscription_tasks[2]
    /\ Len(Puts) = 3
    /\ Puts[3].i = 1

\* the positions in sched_log of two consecutive puts of the same task
ConsecutivePuts(a, b) ==
    /\ a < b
    /\ sched_log[a].ev = "put"
    /\ sched_log[b].ev = "put"
    /\ sched_log[a].i = sched_log[b].i
    /\ \A c \in (a + 1)..(b - 1) : ~(sched_log[c].ev = "put" /\ sched_log[c].i = sched_log[a].i)

SleepsBetween(a, b) == Cardinality({c \in (a + 1)..(b - 1) : sched_log[c].ev = "sleep"})

\* C34 as stated: between two consecutive enqueues of the same task exactly
\* one sleep of subscription_task_interval elapses, whatever the number of
\* subscription tasks.
C34_OneSleepBetweenEnqueues_Original ==
    \A a, b \in 1..Len(sched_log) : ConsecutivePuts(a, b) => SleepsBetween(a, b) = 1

\* C34, amended: the scheduler sleeps once after every enqueue, so between
\* two consecutive enqueues of the same task as many sleeps of
\* subscription_task_interval elapse as there are subscription tasks.
C34_OneSleepAfterEachEnqueue ==
    /\ \A a \in 1..(Len(sched_log) - 1) :
          sched_log[a].ev = "put" => sched_log[a + 1].ev = "sleep"
    /\ \A a, b \in 1..Len(sched_log) :
          ConsecutivePuts(a, b) => SleepsBetween(a, b) = Len(subscription_tasks)

C34_Witness ==
    /\ Len(subscription_tasks) = 2
    /\ \E a, b \in 1..Len(sched_log) : ConsecutivePuts(a, b) /\ SleepsBetween(a, b) = 2

\* C38: a task runner never stops serving the queue: whether the task it
\* took returned or raised, queue.task_done() follows and the runner goes on
\* to take the next task, so no runner ever ends.
C38_RunnerNeverStops ==
    /\ \A w \in 1..Len(runners) : runners[w].state # "dead"
    /\ \A k \in 1..Len(executions) :
          executions[k].called # {} => executions[k].task_done

\* the positions in sched_log of two consecutive passes of the while loop
ConsecutivePasses(a, b) ==
    /\ a < b
    /\ sched_log[a].ev = "pass"
    /\ sched_log[b].ev = "pass"
    /\ \A c \in (a + 1)..(b - 1) : sched_log[c].ev # "pass"

\* C39: the scheduler sleeps at least once in every pass of its while loop,
\* for any task list, the empty one included.
C39_SchedulerSleepsEveryPass ==
    \A a, b \in 1..Len(sched_log) : ConsecutivePasses(a, b) => SleepsBetween(a, b) >= 1

Executing == {w \in 1..Len(runners) : runners[w].state = "task"}

\* the k-th put has happened, on a mock run with max_worker_number >= 1
Enqueued(k) == Len(executions) >= k /\ max_worker_number >= 1

\* a runner has called the task of the k-th put
Called(k) == Len(executions) >= k /\ executions[k].called # {}

\* C40: with at least one subscription task and max_worker_number >= 1,
\* under fair scheduling every task that the scheduler enqueues is eventually
\* called by a runner; each enqueued task is called by one runner only; and
\* no more tasks are under way at once than runners were started.
C40_EnqueuedTasksAreExecuted ==
    /\ \A k \in 1..MaxSchedulerSteps : Enqueued(k) ~> Called(k)
    /\ [](\A k \in 1..Len(executions) : Cardinality(executions[k].called) <= 1)
    /\ [](Cardinality(Executing) <= min(max_worker_number, Len(subscription_tasks)))

-----------------------------------------------------------------------------
(* A server without an application (specification SpecApp) *)

\* C35: handlers are registered only by init_app called with an application:
\* a server made without one has no handler registered for any event or
\* for connect, one made with one has them, and the emit of a server without
\* an application still validates: with validation enabled an event reaches
\* the transport exactly when it passes emit's validation.
C35_HandlersOnlyWithApplication ==
    /\ ~app => (handlers = Unregistered /\ event_handler = <<>>)
    /\ (app /\ Serving /\ channel.connect) => handlers.registered
    /\ (app /\ Serving /\ \E ns \in Namespaces : channels[ns] = "publish") =>
          event_handler # <<>>
    /\ (~app /\ validation /\ pc = "done" /\ call.op = "emit") =>
          LET checked == emit_validation(channels, message, call.event, call.args,
                                         call.namespace, call.callback)
          IN  /\ trace = checked.calls
              /\ emitted.called <=> checked.exc = ""
              /\ outcome = IF checked.exc = "" THEN Returned ELSE Raised(checked.exc)

\* a server without an application refused to emit an event: the message
\* has a payload and the event was emitted without arguments that fit it
C35_Witness ==
    /\ ~app
    /\ validation
    /\ pc = "done"
    /\ call.op = "emit"
    /\ handlers = Unregistered
    /\ event_handler = <<>>
    /\ Len(trace) = 1
    /\ trace[1].fn = "validate_payload"
    /\ outcome = Raised("PayloadValidationException")

====
